---------------------------- MODULE Spec2Model ----------------------------
(***************************************************************************)
(* A model of niko's command pipeline: the response extractor              *)
(* (executor.ExtractCommand), the risk classifier (executor.AssessRisk,    *)
(* ShouldAutoExecute) and the query orchestrator (cli.processQuery).       *)
(*                                                                         *)
(* A Go string is a sequence of characters; a character is a one-character *)
(* string, except the backtick, which a TLA+ string cannot hold and which  *)
(* is the token BT.                                                         *)
(***************************************************************************)
EXTENDS Integers, Sequences, FiniteSets, TLC

VARIABLES
  cfg,       \* the process-wide configuration (config.Get()): the Safety section
  response,  \* the raw text under extraction (processQuery: response)
  command,   \* the command string (processQuery: command; AssessRisk's argument)
  risk,      \* the last verdict of AssessRisk (the zero value Safe before any call)
  calls,     \* the AssessRisk calls made so far: [command, blocked, risk]
  pc,        \* where the flow under study stands
  execFlag,  \* the -x flag
  stdout,    \* what processQuery printed on standard output, in order
  stderr,    \* what processQuery printed on standard error, in order
  executed,  \* the strings handed to ExecuteCommand, in order
  err,       \* the error processQuery returns ("nil": none)
  llmcfg,    \* the configuration's provider name and per-provider sections
  providerFlag, \* the --provider flag ("": not given)
  provider,  \* the provider GetProvider built: [name, apiKey, model]
  requests,  \* the generation requests sent so far: [provider, model], and in
             \* processQuery the backend's reply to each
  spinner,   \* the Spinner and its goroutine
  local,     \* the LocalProvider, its OllamaManager and the machine they see
  selections \* the selectModelByRAM calls made so far: [ram, model]

vars == <<cfg, response, command, risk, calls, pc,
          execFlag, stdout, stderr, executed, err,
          llmcfg, providerFlag, provider, requests, spinner, local, selections>>

\* the variables of the provider layer
backendVars == <<llmcfg, providerFlag, provider, requests, spinner, local, selections>>

\* the variables only processQuery writes
queryVars == <<execFlag, stdout, stderr, executed, err>>

-----------------------------------------------------------------------------
(* Characters and the Go strings package.                                   *)

BT == "BACKTICK"
DQ == "\""

\* unicode.IsSpace on the characters the model draws from ('\v', U+0085 and
\* U+00A0 are never drawn)
SpaceChars == {" ", "\t", "\n", "\r", "\f"}

Min(S) == CHOOSE x \in S : \A y \in S : x <= y
Max(S) == CHOOSE x \in S : \A y \in S : x >= y

\* strings.TrimSpace
TrimSpace(s) ==
  LET keep == {i \in 1..Len(s) : s[i] \notin SpaceChars}
  IN  IF keep = {} THEN <<>> ELSE SubSeq(s, Min(keep), Max(keep))

\* strings.HasPrefix
HasPrefix(s, prefix) ==
  Len(prefix) <= Len(s) /\ SubSeq(s, 1, Len(prefix)) = prefix

\* strings.HasSuffix
HasSuffix(s, suffix) ==
  Len(suffix) <= Len(s) /\ SubSeq(s, Len(s) - Len(suffix) + 1, Len(s)) = suffix

\* strings.TrimPrefix
TrimPrefix(s, prefix) ==
  IF HasPrefix(s, prefix) THEN SubSeq(s, Len(prefix) + 1, Len(s)) ELSE s

\* strings.TrimSuffix
TrimSuffix(s, suffix) ==
  IF HasSuffix(s, suffix) THEN SubSeq(s, 1, Len(s) - Len(suffix)) ELSE s

\* strings.Index, 1-based; 0 when substr does not occur
Index(s, substr) ==
  LET at == {i \in 1..(Len(s) - Len(substr) + 1) :
               SubSeq(s, i, i + Len(substr) - 1) = substr}
  IN  IF at = {} THEN 0 ELSE Min(at)

\* strings.Contains
Contains(s, substr) == Index(s, substr) # 0

-----------------------------------------------------------------------------
(* regexp.MatchString for the syntax the pattern tables use.  A pattern is  *)
(* its syntax tree; Ends(re, s, P) is the set of positions at which a match *)
(* of re that starts at a position of P can end.                            *)

\* the characters of the class \s
ReSpace == {" ", "\t", "\n", "\r", "\f"}

Ch(c)     == [t |-> "in", cs |-> {c}]
NotIn(cs) == [t |-> "notin", cs |-> cs]
WS        == [t |-> "in", cs |-> ReSpace]                       \* \s
Dot       == [t |-> "notin", cs |-> {"\n"}]                      \* . (no s flag)
Cat(xs)   == [t |-> "cat", xs |-> xs]
Alt(xs)   == [t |-> "alt", xs |-> xs]
Star(x)   == [t |-> "star", x |-> x]
Plus(x)   == [t |-> "plus", x |-> x]
Opt(x)    == [t |-> "opt", x |-> x]
Bol       == [t |-> "bol"]                                       \* ^ (no m flag)
Eol       == [t |-> "eol"]                                       \* $ (no m flag)
Lit(s)    == [t |-> "cat", xs |-> [i \in 1..Len(s) |-> Ch(s[i])]]

RECURSIVE Ends(_, _, _)
RECURSIVE CatEnds(_, _, _, _)
RECURSIVE StarEnds(_, _, _)

Ends(re, s, P) ==
  CASE re.t = "in"    -> {p + 1 : p \in {q \in P : q <= Len(s) /\ s[q] \in re.cs}}
    [] re.t = "notin" -> {p + 1 : p \in {q \in P : q <= Len(s) /\ s[q] \notin re.cs}}
    [] re.t = "cat"   -> CatEnds(re.xs, 1, s, P)
    [] re.t = "alt"   -> UNION {Ends(re.xs[i], s, P) : i \in DOMAIN re.xs}
    [] re.t = "star"  -> StarEnds(re.x, s, P)
    [] re.t = "plus"  -> StarEnds(re.x, s, Ends(re.x, s, P))
    [] re.t = "opt"   -> P \cup Ends(re.x, s, P)
    [] re.t = "bol"   -> P \cap {1}
    [] re.t = "eol"   -> P \cap {Len(s) + 1}

CatEnds(xs, i, s, P) ==
  IF i > Len(xs) \/ P = {} THEN P ELSE CatEnds(xs, i + 1, s, Ends(xs[i], s, P))

StarEnds(x, s, P) ==
  LET Q == P \cup Ends(x, s, P)
  IN  IF Q = P THEN P ELSE StarEnds(x, s, Q)

\* regexp.MatchString: the pattern matches somewhere in s
MatchString(pattern, s) == Ends(pattern, s, 1..(Len(s) + 1)) # {}

-----------------------------------------------------------------------------
(* internal/executor/safety.go                                              *)

Safe      == 0
Moderate  == 1
Dangerous == 2
Critical  == 3
RiskLevel == {Safe, Moderate, Dangerous, Critical}

moderatePatterns ==
  <<
    \* ^git\s+(add|commit|stash|checkout|switch|merge)
    Cat(<<Bol, Lit(<<"g", "i", "t">>), Plus(WS), Alt(<<Lit(<<"a", "d", "d">>), Lit(<<"c", "o",
        "m", "m", "i", "t">>), Lit(<<"s", "t", "a", "s", "h">>), Lit(<<"c", "h", "e", "c", "k",
        "o", "u", "t">>), Lit(<<"s", "w", "i", "t", "c", "h">>), Lit(<<"m", "e", "r", "g",
        "e">>)>>)>>),
    \* ^docker\s+(build|run|exec|start|stop)
    Cat(<<Bol, Lit(<<"d", "o", "c", "k", "e", "r">>), Plus(WS), Alt(<<Lit(<<"b", "u", "i", "l",
        "d">>), Lit(<<"r", "u", "n">>), Lit(<<"e", "x", "e", "c">>), Lit(<<"s", "t", "a", "r",
        "t">>), Lit(<<"s", "t", "o", "p">>)>>)>>),
    \* ^kubectl\s+(apply|create|delete|edit)
    Cat(<<Bol, Lit(<<"k", "u", "b", "e", "c", "t", "l">>), Plus(WS), Alt(<<Lit(<<"a", "p", "p",
        "l", "y">>), Lit(<<"c", "r", "e", "a", "t", "e">>), Lit(<<"d", "e", "l", "e", "t",
        "e">>), Lit(<<"e", "d", "i", "t">>)>>)>>),
    \* ^npm\s+(install|update|uninstall)
    Cat(<<Bol, Lit(<<"n", "p", "m">>), Plus(WS), Alt(<<Lit(<<"i", "n", "s", "t", "a", "l",
        "l">>), Lit(<<"u", "p", "d", "a", "t", "e">>), Lit(<<"u", "n", "i", "n", "s", "t", "a",
        "l", "l">>)>>)>>),
    \* ^pip\s+(install|uninstall)
    Cat(<<Bol, Lit(<<"p", "i", "p">>), Plus(WS), Alt(<<Lit(<<"i", "n", "s", "t", "a", "l",
        "l">>), Lit(<<"u", "n", "i", "n", "s", "t", "a", "l", "l">>)>>)>>),
    \* ^go\s+(build|install|get|mod)
    Cat(<<Bol, Lit(<<"g", "o">>), Plus(WS), Alt(<<Lit(<<"b", "u", "i", "l", "d">>), Lit(<<"i",
        "n", "s", "t", "a", "l", "l">>), Lit(<<"g", "e", "t">>), Lit(<<"m", "o", "d">>)>>)>>),
    \* ^cargo\s+(build|install|add|remove)
    Cat(<<Bol, Lit(<<"c", "a", "r", "g", "o">>), Plus(WS), Alt(<<Lit(<<"b", "u", "i", "l",
        "d">>), Lit(<<"i", "n", "s", "t", "a", "l", "l">>), Lit(<<"a", "d", "d">>), Lit(<<"r",
        "e", "m", "o", "v", "e">>)>>)>>),
    \* ^mkdir
    Cat(<<Bol, Lit(<<"m", "k", "d", "i", "r">>)>>),
    \* ^touch
    Cat(<<Bol, Lit(<<"t", "o", "u", "c", "h">>)>>),
    \* ^cp\s
    Cat(<<Bol, Lit(<<"c", "p">>), WS>>),
    \* ^mv\s
    Cat(<<Bol, Lit(<<"m", "v">>), WS>>),
    \* ^ln\s
    Cat(<<Bol, Lit(<<"l", "n">>), WS>>)
  >>

dangerousPatterns ==
  <<
    \* ^rm\s
    Cat(<<Bol, Lit(<<"r", "m">>), WS>>),
    \* ^rmdir
    Cat(<<Bol, Lit(<<"r", "m", "d", "i", "r">>)>>),
    \* ^git\s+(reset|rebase|push|force)
    Cat(<<Bol, Lit(<<"g", "i", "t">>), Plus(WS), Alt(<<Lit(<<"r", "e", "s", "e", "t">>),
        Lit(<<"r", "e", "b", "a", "s", "e">>), Lit(<<"p", "u", "s", "h">>), Lit(<<"f", "o", "r",
        "c", "e">>)>>)>>),
    \* --force
    Lit(<<"-", "-", "f", "o", "r", "c", "e">>),
    \* --hard
    Lit(<<"-", "-", "h", "a", "r", "d">>),
    \* -rf\s
    Cat(<<Lit(<<"-", "r", "f">>), WS>>),
    \* ^docker\s+(rm|rmi|prune|system\s+prune)
    Cat(<<Bol, Lit(<<"d", "o", "c", "k", "e", "r">>), Plus(WS), Alt(<<Lit(<<"r", "m">>),
        Lit(<<"r", "m", "i">>), Lit(<<"p", "r", "u", "n", "e">>), Cat(<<Lit(<<"s", "y", "s",
        "t", "e", "m">>), Plus(WS), Lit(<<"p", "r", "u", "n", "e">>)>>)>>)>>),
    \* ^kubectl\s+delete
    Cat(<<Bol, Lit(<<"k", "u", "b", "e", "c", "t", "l">>), Plus(WS), Lit(<<"d", "e", "l", "e",
        "t", "e">>)>>),
    \* ^chmod
    Cat(<<Bol, Lit(<<"c", "h", "m", "o", "d">>)>>),
    \* ^chown
    Cat(<<Bol, Lit(<<"c", "h", "o", "w", "n">>)>>),
    \* ^sudo
    Cat(<<Bol, Lit(<<"s", "u", "d", "o">>)>>),
    \* ^su\s
    Cat(<<Bol, Lit(<<"s", "u">>), WS>>),
    \* ^kill
    Cat(<<Bol, Lit(<<"k", "i", "l", "l">>)>>),
    \* ^pkill
    Cat(<<Bol, Lit(<<"p", "k", "i", "l", "l">>)>>),
    \* ^killall
    Cat(<<Bol, Lit(<<"k", "i", "l", "l", "a", "l", "l">>)>>),
    \* >\s*[^|]
    Cat(<<Ch(">"), Star(WS), NotIn({"|"})>>),
    \* >>
    Lit(<<">", ">">>)
  >>

criticalPatterns ==
  <<
    \* rm\s+(-rf?|--recursive).*(/|~|\$HOME|\*|\.\./)
    Cat(<<Lit(<<"r", "m">>), Plus(WS), Alt(<<Cat(<<Lit(<<"-", "r">>), Opt(Ch("f"))>>),
        Lit(<<"-", "-", "r", "e", "c", "u", "r", "s", "i", "v", "e">>)>>), Star(Dot),
        Alt(<<Ch("/"), Ch("~"), Lit(<<"$", "H", "O", "M", "E">>), Ch("*"), Lit(<<".", ".",
        "/">>)>>)>>),
    \* rm\s+-rf?\s+/
    Cat(<<Lit(<<"r", "m">>), Plus(WS), Lit(<<"-", "r">>), Opt(Ch("f")), Plus(WS), Ch("/")>>),
    \* rm\s+-rf?\s+\*
    Cat(<<Lit(<<"r", "m">>), Plus(WS), Lit(<<"-", "r">>), Opt(Ch("f")), Plus(WS), Ch("*")>>),
    \* dd\s+if=
    Cat(<<Lit(<<"d", "d">>), Plus(WS), Lit(<<"i", "f", "=">>)>>),
    \* mkfs
    Lit(<<"m", "k", "f", "s">>),
    \* fdisk
    Lit(<<"f", "d", "i", "s", "k">>),
    \* parted
    Lit(<<"p", "a", "r", "t", "e", "d">>),
    \* :\(\)\s*\{\s*:\s*\|\s*:\s*&\s*\}\s*;
    Cat(<<Lit(<<":", "(", ")">>), Star(WS), Ch("{"), Star(WS), Ch(":"), Star(WS), Ch("|"),
        Star(WS), Ch(":"), Star(WS), Ch("&"), Star(WS), Ch("}"), Star(WS), Ch(";")>>),
    \* >\s*/dev/(s|h|v)d
    Cat(<<Ch(">"), Star(WS), Lit(<<"/", "d", "e", "v", "/">>), Alt(<<Ch("s"), Ch("h"),
        Ch("v")>>), Ch("d")>>),
    \* chmod\s+(-R\s+)?777\s+/
    Cat(<<Lit(<<"c", "h", "m", "o", "d">>), Plus(WS), Opt(Cat(<<Lit(<<"-", "R">>), Plus(WS)>>)),
        Lit(<<"7", "7", "7">>), Plus(WS), Ch("/")>>),
    \* chown\s+-R.*\s+/
    Cat(<<Lit(<<"c", "h", "o", "w", "n">>), Plus(WS), Lit(<<"-", "R">>), Star(Dot), Plus(WS),
        Ch("/")>>),
    \* wget.*\|\s*(ba)?sh
    Cat(<<Lit(<<"w", "g", "e", "t">>), Star(Dot), Ch("|"), Star(WS), Opt(Lit(<<"b", "a">>)),
        Lit(<<"s", "h">>)>>),
    \* curl.*\|\s*(ba)?sh
    Cat(<<Lit(<<"c", "u", "r", "l">>), Star(Dot), Ch("|"), Star(WS), Opt(Lit(<<"b", "a">>)),
        Lit(<<"s", "h">>)>>),
    \* \|\s*sh\s*$
    Cat(<<Ch("|"), Star(WS), Lit(<<"s", "h">>), Star(WS), Eol>>),
    \* \|\s*bash\s*$
    Cat(<<Ch("|"), Star(WS), Lit(<<"b", "a", "s", "h">>), Star(WS), Eol>>)
  >>

safeCommands ==
  << <<"l", "s">>,
     <<"l", "l">>,
     <<"l", "a">>,
     <<"d", "i", "r">>,
     <<"p", "w", "d">>,
     <<"c", "d">>,
     <<"c", "a", "t">>,
     <<"l", "e", "s", "s">>,
     <<"m", "o", "r", "e">>,
     <<"h", "e", "a", "d">>,
     <<"t", "a", "i", "l">>,
     <<"g", "r", "e", "p">>,
     <<"r", "g">>,
     <<"a", "g">>,
     <<"a", "c", "k">>,
     <<"f", "i", "n", "d">>,
     <<"f", "d">>,
     <<"l", "o", "c", "a", "t", "e">>,
     <<"e", "c", "h", "o">>,
     <<"p", "r", "i", "n", "t", "f">>,
     <<"d", "a", "t", "e">>,
     <<"c", "a", "l">>,
     <<"w", "h", "o", "a", "m", "i">>,
     <<"i", "d">>,
     <<"w", "h", "o">>,
     <<"w">>,
     <<"u", "n", "a", "m", "e">>,
     <<"h", "o", "s", "t", "n", "a", "m", "e">>,
     <<"e", "n", "v">>,
     <<"p", "r", "i", "n", "t", "e", "n", "v">>,
     <<"w", "h", "i", "c", "h">>,
     <<"w", "h", "e", "r", "e", "i", "s">>,
     <<"t", "y", "p", "e">>,
     <<"m", "a", "n">>,
     <<"h", "e", "l", "p">>,
     <<"i", "n", "f", "o">>,
     <<"w", "c">>,
     <<"s", "o", "r", "t">>,
     <<"u", "n", "i", "q">>,
     <<"c", "u", "t">>,
     <<"t", "r">>,
     <<"d", "i", "f", "f">>,
     <<"c", "m", "p">>,
     <<"f", "i", "l", "e">>,
     <<"s", "t", "a", "t">>,
     <<"d", "f">>,
     <<"d", "u">>,
     <<"f", "r", "e", "e">>,
     <<"t", "o", "p">>,
     <<"h", "t", "o", "p">>,
     <<"p", "s">>,
     <<"p", "g", "r", "e", "p">>,
     <<"u", "p", "t", "i", "m", "e">>,
     <<"l", "s", "c", "p", "u">>,
     <<"l", "s", "m", "e", "m">>,
     <<"p", "i", "n", "g">>,
     <<"h", "o", "s", "t">>,
     <<"d", "i", "g">>,
     <<"n", "s", "l", "o", "o", "k", "u", "p">>,
     <<"c", "u", "r", "l">>,
     <<"w", "g", "e", "t">>,
     <<"h", "t", "t", "p">>,
     <<"g", "i", "t", " ", "s", "t", "a", "t", "u", "s">>,
     <<"g", "i", "t", " ", "l", "o", "g">>,
     <<"g", "i", "t", " ", "d", "i", "f", "f">>,
     <<"g", "i", "t", " ", "b", "r", "a", "n", "c", "h">>,
     <<"g", "i", "t", " ", "r", "e", "m", "o", "t", "e">>,
     <<"d", "o", "c", "k", "e", "r", " ", "p", "s">>,
     <<"d", "o", "c", "k", "e", "r", " ", "i", "m", "a", "g", "e", "s">>,
     <<"d", "o", "c", "k", "e", "r", " ", "l", "o", "g", "s">>,
     <<"k", "u", "b", "e", "c", "t", "l", " ", "g", "e", "t">>,
     <<"k", "u", "b", "e", "c", "t", "l", " ", "d", "e", "s", "c", "r", "i", "b", "e">>,
     <<"k", "u", "b", "e", "c", "t", "l", " ", "l", "o", "g", "s">>,
     <<"n", "p", "m", " ", "l", "i", "s", "t">>,
     <<"n", "p", "m", " ", "o", "u", "t", "d", "a", "t", "e", "d">>,
     <<"n", "p", "m", " ", "v", "i", "e", "w">>,
     <<"p", "i", "p", " ", "l", "i", "s", "t">>,
     <<"p", "i", "p", " ", "s", "h", "o", "w">>,
     <<"g", "o", " ", "l", "i", "s", "t">>,
     <<"g", "o", " ", "v", "e", "r", "s", "i", "o", "n">>,
     <<"g", "o", " ", "e", "n", "v">>,
     <<"c", "a", "r", "g", "o", " ", "-", "-", "v", "e", "r", "s", "i", "o", "n">>,
     <<"r", "u", "s", "t", "c", " ", "-", "-", "v", "e", "r", "s", "i", "o", "n">>,
     <<"n", "o", "d", "e", " ", "-", "-", "v", "e", "r", "s", "i", "o", "n">>,
     <<"p", "y", "t", "h", "o", "n", " ", "-", "-", "v", "e", "r", "s", "i", "o", "n">> >>

\* DefaultConfig().Safety.BlockedCommands
DefaultBlockedCommands ==
  << <<"r", "m", " ", "-", "r", "f", " ", "/">>,
     <<"r", "m", " ", "-", "r", "f", " ", "/", "*">>,
     <<":", "(", ")", "{", " ", ":", "|", ":", "&", " ", "}", ";", ":">>,
     <<"d", "d", " ", "i", "f", "=", "/", "d", "e", "v", "/", "z", "e", "r", "o", " ",
       "o", "f", "=", "/", "d", "e", "v", "/", "s", "d", "a">>,
     <<"m", "k", "f", "s", ".", "e", "x", "t", "4", " ", "/", "d", "e", "v", "/", "s", "d", "a">>,
     <<">", " ", "/", "d", "e", "v", "/", "s", "d", "a">>,
     <<"c", "h", "m", "o", "d", " ", "-", "R", " ", "7", "7", "7", " ", "/">> >>

\* DefaultConfig().Safety
DefaultSafety ==
  [AutoExecute |-> "safe", RequireConfirmDangerous |-> TRUE,
   BlockedCommands |-> DefaultBlockedCommands]

\* the block lists a user may have configured (config.Set, or the config file)
BlockLists ==
  { DefaultBlockedCommands,
    <<>>,
    << <<"s", "u", "d", "o", " ">>, <<"b", "u", "i", "l", "d">> >> }

\* the block-list step of AssessRisk, on the trimmed command
BlockListStep(trimmed) ==
  \E i \in DOMAIN cfg.BlockedCommands : Contains(trimmed, cfg.BlockedCommands[i])

AnyMatch(patterns, s) == \E i \in DOMAIN patterns : MatchString(patterns[i], s)

SafePrefix(s) == \E i \in DOMAIN safeCommands : HasPrefix(s, safeCommands[i])

\* AssessRisk with the safe list tried before the pattern tables
AssessRisk_SafeListFirst(cmd) ==
  LET trimmed == TrimSpace(cmd)
  IN  IF BlockListStep(trimmed) THEN Critical
      ELSE IF SafePrefix(trimmed) THEN Safe
      ELSE IF AnyMatch(criticalPatterns, trimmed) THEN Critical
      ELSE IF AnyMatch(dangerousPatterns, trimmed) THEN Dangerous
      ELSE Moderate

AssessRisk(cmd) ==
  LET trimmed == TrimSpace(cmd)
  IN  IF BlockListStep(trimmed) THEN Critical
      ELSE IF AnyMatch(criticalPatterns, trimmed) THEN Critical
      ELSE IF AnyMatch(dangerousPatterns, trimmed) THEN Dangerous
      ELSE IF AnyMatch(moderatePatterns, trimmed) THEN Moderate
      ELSE IF SafePrefix(trimmed) THEN Safe
      ELSE Moderate

ShouldAutoExecute(r) ==
  CASE cfg.AutoExecute = "none"     -> FALSE
    [] cfg.AutoExecute = "safe"     -> r = Safe
    [] cfg.AutoExecute = "moderate" -> r <= Moderate
    [] cfg.AutoExecute = "all"      -> r < Critical
    [] OTHER                        -> r = Safe

IsBlocked(cmd) ==
  \E i \in DOMAIN cfg.BlockedCommands : Contains(cmd, cfg.BlockedCommands[i])

-----------------------------------------------------------------------------
(* executor.ExtractCommand and its helpers.                                 *)

\* strings.Split(s, "\n")
RECURSIVE SplitLines(_)
SplitLines(s) ==
  LET nl == Index(s, <<"\n">>)
  IN  IF nl = 0 THEN <<s>>
      ELSE <<SubSeq(s, 1, nl - 1)>> \o SplitLines(SubSeq(s, nl + 1, Len(s)))

\* the labels ExtractCommand strips, in the order it tries them
prefixes ==
  << <<"C", "o", "m", "m", "a", "n", "d", ":">>,
     <<"c", "o", "m", "m", "a", "n", "d", ":">>,
     <<"C", "M", "D", ":">>,
     <<"c", "m", "d", ":">>,
     <<"$", " ">>,
     <<">", " ">> >>

\* the loop over prefixes: each label is tried once, in order, on what the
\* earlier ones left
RECURSIVE StripPrefixes(_, _)
StripPrefixes(s, i) ==
  IF i > Len(prefixes) THEN s
  ELSE IF HasPrefix(s, prefixes[i])
       THEN StripPrefixes(TrimSpace(TrimPrefix(s, prefixes[i])), i + 1)
       ELSE StripPrefixes(s, i + 1)

Fence == <<BT, BT, BT>>

\* (?:bash|sh|shell|zsh|cmd|powershell)? : the alternatives in the order the
\* matcher prefers them, the empty one last
FenceTags ==
  << <<"b", "a", "s", "h">>,
     <<"s", "h">>,
     <<"s", "h", "e", "l", "l">>,
     <<"z", "s", "h">>,
     <<"c", "m", "d">>,
     <<"p", "o", "w", "e", "r", "s", "h", "e", "l", "l">>,
     <<>> >>

\* lit occurs in s at position i
At(s, i, lit) ==
  i + Len(lit) - 1 <= Len(s) /\ SubSeq(s, i, i + Len(lit) - 1) = lit

\* the positions e >= from where "\n```" starts
Closings(s, from) == {e \in from..Len(s) : At(s, e, <<"\n">> \o Fence)}

\* the white-space counts \s* may take from position j on, each leaving a
\* "\n" for the pattern's own \n and a closing fence after the capture
SpaceTakes(s, j) ==
  {k \in 0..(Len(s) - j) :
     /\ \A m \in j..(j + k - 1) : s[m] \in ReSpace
     /\ s[j + k] = "\n"
     /\ Closings(s, j + k + 1) # {}}

\* the fence tags, by index, with which a match can start at position i
TagTakes(s, i) ==
  {n \in DOMAIN FenceTags :
     /\ At(s, i + 3, FenceTags[n])
     /\ SpaceTakes(s, i + 3 + Len(FenceTags[n])) # {}}

\* codeBlockRe.FindStringSubmatch, for
\*   ```(?:bash|sh|shell|zsh|cmd|powershell)?\s*\n([\s\S]*?)\n```
\* the leftmost match; at that place the first tag alternative that can
\* match, with it the longest \s* that can, and with that the shortest
\* capture.  The result is <<>> (no match) or <<matches[1]>>.
CodeBlockMatch(s) ==
  LET starts == {i \in 1..Len(s) : At(s, i, Fence) /\ TagTakes(s, i) # {}}
  IN  IF starts = {} THEN <<>>
      ELSE LET i == Min(starts)
               j == i + 3 + Len(FenceTags[Min(TagTakes(s, i))])
               c == j + Max(SpaceTakes(s, j)) + 1
           IN  <<SubSeq(s, c, Min(Closings(s, c)) - 1)>>

\* inlineCodeRe.FindStringSubmatch, for `([^`]+)` : the leftmost backtick
\* followed by one or more other characters and then a backtick
InlineCodeMatch(s) ==
  LET ticks == {i \in 1..Len(s) : s[i] = BT}
      starts == {i \in ticks : i + 1 <= Len(s) /\ s[i + 1] # BT
                                /\ \E j \in ticks : j > i + 1}
  IN  IF starts = {} THEN <<>>
      ELSE LET i == Min(starts)
           IN  <<SubSeq(s, i + 1, Min({j \in ticks : j > i + 1}) - 1)>>

IsMarkerLine(line) ==
  \/ HasPrefix(line, <<"$">>)
  \/ HasPrefix(line, <<">">>)
  \/ HasPrefix(line, <<"#">>)

\* the indices of the non-empty trimmed lines that start with $, > or #
MarkerLines(lines) ==
  {n \in DOMAIN lines : IsMarkerLine(TrimSpace(lines[n]))}

StripMarker(line) ==
  TrimSpace(TrimPrefix(TrimPrefix(TrimPrefix(line, <<"$">>), <<">">>), <<"#">>))

MaxCommandLen == 500

commandPrefixes ==
  << <<"l", "s">>, <<"c", "d">>, <<"p", "w", "d">>, <<"c", "a", "t">>, <<"e", "c", "h", "o">>,
     <<"g", "r", "e", "p">>, <<"f", "i", "n", "d">>, <<"m", "k", "d", "i", "r">>, <<"r", "m">>,
     <<"c", "p">>, <<"m", "v">>,
     <<"g", "i", "t">>, <<"d", "o", "c", "k", "e", "r">>, <<"k", "u", "b", "e", "c", "t", "l">>,
     <<"n", "p", "m">>, <<"y", "a", "r", "n">>, <<"p", "i", "p">>, <<"g", "o">>,
     <<"c", "a", "r", "g", "o">>, <<"m", "a", "k", "e">>,
     <<"c", "u", "r", "l">>, <<"w", "g", "e", "t">>, <<"s", "s", "h">>, <<"s", "c", "p">>,
     <<"t", "a", "r">>, <<"z", "i", "p">>, <<"u", "n", "z", "i", "p">>,
     <<"c", "h", "m", "o", "d">>, <<"c", "h", "o", "w", "n">>,
     <<"p", "s">>, <<"k", "i", "l", "l">>, <<"t", "o", "p">>, <<"d", "f">>, <<"d", "u">>,
     <<"h", "e", "a", "d">>, <<"t", "a", "i", "l">>, <<"s", "o", "r", "t">>,
     <<"u", "n", "i", "q">>, <<"w", "c">>,
     <<"a", "w", "k">>, <<"s", "e", "d">>, <<"c", "u", "t">>, <<"t", "r">>,
     <<"d", "i", "f", "f">>, <<"t", "o", "u", "c", "h">>, <<"l", "n">>, <<"f", "i", "l", "e">>,
     <<"w", "h", "i", "c", "h">>,
     <<"p", "y", "t", "h", "o", "n">>, <<"p", "y", "t", "h", "o", "n", "3">>,
     <<"n", "o", "d", "e">>, <<"r", "u", "b", "y">>, <<"p", "e", "r", "l">>,
     <<"j", "a", "v", "a">>, <<"j", "a", "v", "a", "c">>,
     <<"b", "r", "e", "w">>, <<"a", "p", "t">>, <<"a", "p", "t", "-", "g", "e", "t">>,
     <<"y", "u", "m">>, <<"d", "n", "f">>, <<"p", "a", "c", "m", "a", "n">>,
     <<"s", "u", "d", "o">>, <<"s", "u">>, <<"e", "n", "v">>, <<"e", "x", "p", "o", "r", "t">>,
     <<"s", "o", "u", "r", "c", "e">>, <<"a", "l", "i", "a", "s">> >>

looksLikeCommand(s) ==
  IF Len(s) = 0 \/ Len(s) > MaxCommandLen THEN FALSE
  ELSE IF \/ HasPrefix(s, <<"I", " ">>)
          \/ HasPrefix(s, <<"T", "h", "e", " ">>)
          \/ HasPrefix(s, <<"T", "h", "i", "s", " ">>)
          \/ HasPrefix(s, <<"T", "o", " ">>)
          \/ HasPrefix(s, <<"Y", "o", "u", " ">>)
          \/ HasPrefix(s, <<"H", "e", "r", "e", " ">>)
       THEN FALSE
  ELSE \E i \in DOMAIN commandPrefixes :
         HasPrefix(s, commandPrefixes[i] \o <<" ">>) \/ s = commandPrefixes[i]

\* the two patterns ExtractCommand compiles, as syntax trees
codeBlockRe ==
  Cat(<<Lit(Fence),
        Opt(Alt([n \in 1..(Len(FenceTags) - 1) |-> Lit(FenceTags[n])])),
        Star(WS), Ch("\n"), Star(NotIn({})), Ch("\n"), Lit(Fence)>>)

inlineCodeRe == Cat(<<Ch(BT), Plus(NotIn({BT})), Ch(BT)>>)

\* ExtractCommand with the first-line heuristic tried before the structural
\* signals
ExtractCommand_HeuristicFirst(raw) ==
  LET stripped == StripPrefixes(TrimSpace(raw), 1)
      block == CodeBlockMatch(stripped)
      inline == InlineCodeMatch(stripped)
      lines == SplitLines(stripped)
      firstLine == TrimSpace(lines[1])
  IN  IF looksLikeCommand(firstLine) THEN firstLine
      ELSE IF block # <<>> THEN TrimSpace(block[1])
      ELSE IF inline # <<>> THEN TrimSpace(inline[1])
      ELSE IF MarkerLines(lines) # {}
           THEN StripMarker(TrimSpace(lines[Min(MarkerLines(lines))]))
      ELSE stripped

\* ExtractCommand with a fallback that returns the first line only
ExtractCommand_FirstLineFallback(raw) ==
  LET stripped == StripPrefixes(TrimSpace(raw), 1)
      block == CodeBlockMatch(stripped)
      inline == InlineCodeMatch(stripped)
      lines == SplitLines(stripped)
      firstLine == TrimSpace(lines[1])
  IN  IF block # <<>> THEN TrimSpace(block[1])
      ELSE IF inline # <<>> THEN TrimSpace(inline[1])
      ELSE IF MarkerLines(lines) # {}
           THEN StripMarker(TrimSpace(lines[Min(MarkerLines(lines))]))
      ELSE firstLine

\* ExtractCommand with the inline span tried before the fenced block
ExtractCommand_InlineFirst(raw) ==
  LET stripped == StripPrefixes(TrimSpace(raw), 1)
      block == CodeBlockMatch(stripped)
      inline == InlineCodeMatch(stripped)
      lines == SplitLines(stripped)
      firstLine == TrimSpace(lines[1])
  IN  IF inline # <<>> THEN TrimSpace(inline[1])
      ELSE IF block # <<>> THEN TrimSpace(block[1])
      ELSE IF MarkerLines(lines) # {}
           THEN StripMarker(TrimSpace(lines[Min(MarkerLines(lines))]))
      ELSE IF looksLikeCommand(firstLine) THEN firstLine
      ELSE stripped

ExtractCommand(raw) ==
  LET stripped == StripPrefixes(TrimSpace(raw), 1)
      block == CodeBlockMatch(stripped)
      inline == InlineCodeMatch(stripped)
      lines == SplitLines(stripped)
      firstLine == TrimSpace(lines[1])
  IN  IF block # <<>> THEN TrimSpace(block[1])
      ELSE IF inline # <<>> THEN TrimSpace(inline[1])
      ELSE IF MarkerLines(lines) # {}
           THEN StripMarker(TrimSpace(lines[Min(MarkerLines(lines))]))
      ELSE IF looksLikeCommand(firstLine) THEN firstLine
      ELSE stripped

-----------------------------------------------------------------------------
(* executor.GetFirstTool and executor.IsToolAvailable.                      *)

\* strings.Fields
RECURSIVE Fields(_)
Fields(s) ==
  LET word == {i \in 1..Len(s) : s[i] \notin SpaceChars}
  IN  IF word = {} THEN <<>>
      ELSE LET start == Min(word)
               gaps == {i \in start..Len(s) : s[i] \in SpaceChars}
               stop == IF gaps = {} THEN Len(s) + 1 ELSE Min(gaps)
           IN  <<SubSeq(s, start, stop - 1)>> \o Fields(SubSeq(s, stop, Len(s)))

\* strings.Join(parts, " ")
RECURSIVE Join(_)
Join(parts) ==
  IF Len(parts) = 0 THEN <<>>
  ELSE IF Len(parts) = 1 THEN parts[1]
  ELSE parts[1] \o <<" ">> \o Join(Tail(parts))

skipPrefixes == {<<"s", "u", "d", "o">>, <<"e", "n", "v">>, <<"n", "o", "h", "u", "p">>, <<"t", "i", "m", "e">>}

\* the words after a wrapper command that are not a command to skip to
NotACommand(word) ==
  \/ word \in {<<"|">>, <<">">>, <<">", ">">>, <<"<">>, <<"&", "&">>, <<"|", "|">>}
  \/ HasPrefix(word, <<"-">>)

RECURSIVE GetFirstTool(_)
GetFirstTool(cmd) ==
  LET trimmed == TrimSpace(cmd)
      parts == Fields(trimmed)
  IN  IF HasPrefix(trimmed, <<"(">>) \/ HasPrefix(trimmed, <<"$">>) THEN <<>>
      ELSE IF Len(parts) = 0 THEN <<>>
      ELSE IF parts[1] \in skipPrefixes /\ Len(parts) > 1
           THEN IF NotACommand(parts[2]) THEN parts[1]
                ELSE GetFirstTool(Join(Tail(parts)))
      ELSE parts[1]

\* the shell built-ins IsToolAvailable knows
builtins ==
  { <<"e", "c", "h", "o">>, <<"c", "d">>, <<"p", "w", "d">>,
    <<"e", "x", "p", "o", "r", "t">>, <<"s", "o", "u", "r", "c", "e">>,
    <<"a", "l", "i", "a", "s">>, <<"e", "x", "i", "t">>, <<"r", "e", "t", "u", "r", "n">>,
    <<"s", "e", "t">>, <<"u", "n", "s", "e", "t">>, <<"r", "e", "a", "d">>,
    <<"e", "v", "a", "l">>, <<"e", "x", "e", "c">>, <<"t", "r", "a", "p">>,
    <<"w", "a", "i", "t">>, <<"k", "i", "l", "l">>, <<"t", "e", "s", "t">>, <<"[">>,
    <<"[", "[">>, <<"i", "f">>, <<"f", "o", "r">>, <<"w", "h", "i", "l", "e">>,
    <<"c", "a", "s", "e">>, <<"f", "u", "n", "c", "t", "i", "o", "n">>,
    <<"t", "i", "m", "e">> }

\* IsToolAvailable(tool), given what exec.LookPath finds on the path
IsToolAvailable(tool, onPath) ==
  IF tool = <<>> THEN TRUE
  ELSE IF tool \in builtins THEN TRUE
  ELSE onPath

-----------------------------------------------------------------------------
(* The providers: the configuration they are built from (internal/config),  *)
(* llm.GetProvider and the constructors, IsAvailable.  A model identifier   *)
(* is a Go string; an API key is kept as "" or a non-empty token, since the *)
(* code only ever compares it with "".                                      *)

Qwen == <<"q", "w", "e", "n", "2", ".", "5", "-", "c", "o", "d", "e", "r", ":">>
Qwen7b == Qwen \o <<"7", "b">>
Qwen3b == Qwen \o <<"3", "b">>
Qwen15b == Qwen \o <<"1", ".", "5", "b">>

DefaultModel == Qwen15b
FallbackModel == Qwen15b
TinyLlama ==
  <<"t", "i", "n", "y", "l", "l", "a", "m", "a", "-", "1", ".", "1", "b", "-", "c",
    "h", "a", "t", "-", "v", "1", ".", "0", ".", "Q", "4", "_", "K", "_", "M", ".",
    "g", "g", "u", "f">>

\* the recommended models, in table order
availableModels == <<Qwen7b, Qwen3b, Qwen15b>>

GPT4oMini == <<"g", "p", "t", "-", "4", "o", "-", "m", "i", "n", "i">>
Claude35Haiku ==
  <<"c", "l", "a", "u", "d", "e", "-", "3", "-", "5", "-", "h", "a", "i", "k", "u", "-",
    "2", "0", "2", "4", "1", "0", "2", "2">>
DeepSeekChat == <<"d", "e", "e", "p", "s", "e", "e", "k", "-", "c", "h", "a", "t">>

\* config.DefaultConfig(): the provider name and, per provider, the key and
\* the model
\* the address of the runtime StartServer starts, and the default of local.url
OllamaDefaultURL == "http://127.0.0.1:11434"

DefaultConfig ==
  [Provider |-> "local",
   Local    |-> [Model |-> Qwen7b, URL |-> OllamaDefaultURL],
   OpenAI   |-> [APIKey |-> "", Model |-> GPT4oMini],
   Claude   |-> [APIKey |-> "", Model |-> Claude35Haiku],
   DeepSeek |-> [APIKey |-> "", Model |-> DeepSeekChat]]

\* the configuration's section for a provider name
Section(c, name) ==
  CASE name = "local"    -> c.Local
    [] name = "openai"   -> c.OpenAI
    [] name = "claude"   -> c.Claude
    [] name = "deepseek" -> c.DeepSeek

WithSection(c, name, sec) ==
  CASE name = "local"    -> [c EXCEPT !.Local = sec]
    [] name = "openai"   -> [c EXCEPT !.OpenAI = sec]
    [] name = "claude"   -> [c EXCEPT !.Claude = sec]
    [] name = "deepseek" -> [c EXCEPT !.DeepSeek = sec]

ProviderNames == {"local", "openai", "claude", "deepseek"}

\* a model the user configured
CustomModel == <<"l", "l", "a", "m", "a", "3", ":", "8", "b">>

\* an address the user configured for a runtime of their own
CustomURL == "http://10.0.0.5:11434"

\* config.yaml as far as it concerns the providers: the provider key, and for
\* one section the api_key it sets and the model it sets, if it sets one
\* (model is the empty set when the key is absent from the file), and the
\* local.url it sets, if it sets one
ConfigFiles ==
  [provider : ProviderNames \cup {"bogus"},
   section  : ProviderNames,
   api_key  : {"", "sk-file"},
   model    : {{}, {<<>>}, {CustomModel}},
   url      : {{}, {""}, {CustomURL}}]

\* OPENAI_API_KEY, ANTHROPIC_API_KEY and DEEPSEEK_API_KEY in the environment
EnvKeys ==
  {[n \in ProviderNames \ {"local"} |-> IF n \in S THEN "sk-env" ELSE ""] :
     S \in {{}, {"openai"}, {"claude", "deepseek"}}}

\* config.Load: the defaults, overlaid with what the file sets, and then each
\* provider's environment key where the key is still empty
Load(file, env) ==
  LET c0 == [DefaultConfig EXCEPT !.Provider = file.provider]
      d == Section(c0, file.section)
      withModel == IF file.model = {} THEN d
                   ELSE [d EXCEPT !.Model = CHOOSE m \in file.model : TRUE]
      withKey == IF file.section = "local" THEN withModel
                 ELSE [withModel EXCEPT !.APIKey = file.api_key]
      c1 == [WithSection(c0, file.section, withKey) EXCEPT
               !.Local.URL = IF file.url = {} THEN @ ELSE CHOOSE u \in file.url : TRUE]
      EnvKey(sec, name) ==
        IF env[name] # "" /\ sec.APIKey = "" THEN [sec EXCEPT !.APIKey = env[name]]
        ELSE sec
  IN  [c1 EXCEPT !.OpenAI = EnvKey(@, "openai"),
                 !.Claude = EnvKey(@, "claude"),
                 !.DeepSeek = EnvKey(@, "deepseek")]

\* the value of provider before GetProvider, and after it failed
NoProvider == [name |-> "", apiKey |-> "", model |-> <<>>]

NewLocalProvider(c) ==
  [name |-> "local", apiKey |-> "",
   model |-> IF c.Model = <<>> \/ c.Model = TinyLlama THEN DefaultModel ELSE c.Model,
   baseURL |-> IF c.URL = "" THEN OllamaDefaultURL ELSE c.URL]

NewOpenAIProvider(c) == [name |-> "openai", apiKey |-> c.APIKey, model |-> c.Model]

NewClaudeProvider(c) == [name |-> "claude", apiKey |-> c.APIKey, model |-> c.Model]

NewDeepSeekProvider(c) == [name |-> "deepseek", apiKey |-> c.APIKey, model |-> c.Model]

\* llm.GetProvider: NoProvider stands for the error "unknown provider"
GetProvider(c, providerType) ==
  CASE providerType = "local"    -> NewLocalProvider(c.Local)
    [] providerType = "openai"   -> NewOpenAIProvider(c.OpenAI)
    [] providerType = "claude"   -> NewClaudeProvider(c.Claude)
    [] providerType = "deepseek" -> NewDeepSeekProvider(c.DeepSeek)
    [] OTHER                     -> NoProvider

\* IsAvailable of the OpenAI, Claude and DeepSeek providers
IsAvailable(p) == p.apiKey # ""

-----------------------------------------------------------------------------
(* The local provider's model choice.  memory.TotalMemory() is a number of  *)
(* bytes; the model counts memory in MiB (2^20 bytes), a unit every machine *)
(* size is a multiple of, so that a GiB is 1024 of them.                    *)

GiB == 1024

\* selectModelByRAM with exclusive thresholds
selectModelByRAM_Exclusive(totalRAM) ==
  LET ramGB == totalRAM \div GiB
  IN  IF ramGB > 8 THEN Qwen7b
      ELSE IF ramGB > 4 THEN Qwen3b
      ELSE Qwen15b

selectModelByRAM(totalRAM) ==
  LET ramGB == totalRAM \div GiB
  IN  IF ramGB >= 8 THEN Qwen7b
      ELSE IF ramGB >= 4 THEN Qwen3b
      ELSE Qwen15b

\* hasModel: the runtime lists the model, or, for a model with a tag, a name
\* that starts with it
hasModel(present, model) ==
  \E name \in present :
    \/ name = model
    \/ Contains(model, <<":">>) /\ HasPrefix(name, model)

-----------------------------------------------------------------------------
(* llm.cleanResponse, the local provider's pass over the model's output.    *)

\* strings.Join(lines, "\n")
RECURSIVE JoinLines(_)
JoinLines(lines) ==
  IF Len(lines) = 0 THEN <<>>
  ELSE IF Len(lines) = 1 THEN lines[1]
  ELSE lines[1] \o <<"\n">> \o JoinLines(Tail(lines))

\* the loop over the lines of a response that holds a fence: a line that
\* starts with the fence toggles inBlock and is dropped, a line inside a block
\* is kept
RECURSIVE BlockLines(_, _)
BlockLines(lines, inBlock) ==
  IF Len(lines) = 0 THEN <<>>
  ELSE IF HasPrefix(TrimSpace(lines[1]), Fence)
       THEN BlockLines(Tail(lines), ~inBlock)
       ELSE IF inBlock
            THEN <<lines[1]>> \o BlockLines(Tail(lines), inBlock)
            ELSE BlockLines(Tail(lines), inBlock)

\* the labels cleanResponse removes, in the order it tries them
cleanPrefixes ==
  << <<"$", " ">>,
     <<">", " ">>,
     <<"C", "o", "m", "m", "a", "n", "d", ":", " ">>,
     <<"c", "o", "m", "m", "a", "n", "d", ":", " ">>,
     <<"O", "u", "t", "p", "u", "t", ":", " ">> >>

\* the loop over cleanPrefixes: each is trimmed once from what the earlier
\* ones left
RECURSIVE TrimPrefixes(_, _)
TrimPrefixes(s, i) ==
  IF i > Len(cleanPrefixes) THEN s
  ELSE TrimPrefixes(TrimPrefix(s, cleanPrefixes[i]), i + 1)

\* the lines the last loop skips: empty lines, comments and explanatory text
SkippedLine(line) ==
  \/ line = <<>>
  \/ HasPrefix(line, <<"#">>)
  \/ HasPrefix(line, <<"/", "/">>)
  \/ HasPrefix(line, <<"N", "o", "t", "e", ":">>)
  \/ HasPrefix(line, <<"T", "h", "i", "s", " ">>)
  \/ HasPrefix(line, <<"T", "h", "e", " ">>)
  \/ /\ HasPrefix(line, <<"'">>)
     /\ Contains(line, <<"n", "o", "t", " ", "i", "n", "s", "t", "a", "l", "l", "e", "d">>)

cleanResponse(raw) ==
  LET trimmed  == TrimSpace(raw)
      cleaned  == BlockLines(SplitLines(trimmed), FALSE)
      unfenced == IF Contains(trimmed, Fence) /\ Len(cleaned) > 0
                    THEN JoinLines(cleaned)
                    ELSE trimmed
      stripped == TrimPrefixes(unfenced, 1)
      lines    == SplitLines(stripped)
      valid    == {i \in DOMAIN lines : ~SkippedLine(TrimSpace(lines[i]))}
  IN  IF valid # {} THEN TrimSpace(lines[Min(valid)])
      ELSE TrimSpace(stripped)

\* the provider layer before anything ran
\* NewSpinner: both channels open, not active, no goroutine; task is the
\* goroutine of the first Start that starts one, later those of the Starts
\* after it, panic the run-time panic that ended the process ("": none)
SpinnerIdle ==
  [terminal |-> FALSE, active |-> FALSE, stop |-> "open", done |-> "open",
   task |-> "none", frames |-> 0, cleared |-> FALSE, later |-> <<>>, panic |-> ""]

LocalIdle ==
  [isInternal |-> FALSE, installed |-> FALSE, systemOllama |-> FALSE,
   child |-> "none", cmd |-> "", polls |-> 0, slept |-> 0, answered |-> {},
   downloads |-> 0,
   present |-> {}, ensured |-> FALSE, requested |-> <<>>, listed |-> {},
   pulls |-> <<>>]

BackendIdle ==
  /\ llmcfg = DefaultConfig
  /\ providerFlag = ""
  /\ provider = NoProvider
  /\ requests = <<>>
  /\ spinner = SpinnerIdle
  /\ local = LocalIdle
  /\ selections = <<>>

-----------------------------------------------------------------------------
(* cli.processQuery, from the provider call on, and cli.ExecuteCommand.     *)

\* what the provider's Generate may return as text
ModelOutputs ==
  { \* a bare command
    <<"l", "s">>,
    \* the same in a tagged fenced block
    <<BT, BT, BT, "b", "a", "s", "h", "\n", "l", "s", " ", "-", "l", "a", "\n", BT, BT, BT>>,
    \* white space around the command
    <<" ", "s", "u", "d", "o", " ", "l", "s", "\n">>,
    \* a label before the command
    <<"C", "o", "m", "m", "a", "n", "d", ":", " ", "r", "m", " ", "-", "r", "f", " ", "b",
      "u", "i", "l", "d">>,
    <<"r", "m", " ", "-", "r", "f", " ", "/">>,
    <<"r", "m", " ", "-", "r", "f", " ", "/", "t", "m", "p", "/", "b", "u", "i", "l", "d">>,
    \* an inline span
    <<BT, "c", "u", "r", "l", " ", "x", " ", "|", " ", "s", "h", BT>>,
    <<"m", "k", "d", "i", "r", " ", "b", "u", "i", "l", "d">>,
    <<"t", "r", "u", "n", "c", "a", "t", "e", " ", "f">>,
    \* a prompt marker
    <<"$", " ", "g", "i", "t", " ", "p", "u", "s", "h", " ", "-", "-", "f", "o", "r", "c",
      "e">>,
    \* prose, then a command on the second line
    <<"I", " ", "t", "h", "i", "n", "k", "\n", "l", "s">>,
    \* no content
    <<>>,
    \* white space only
    <<" ", "\n">>,
    \* the sentinel shapes
    <<"D", "e", "c", "l", "i", "n", "e", "d", ":", " ", "n", "o">>,
    <<"P", "l", "e", "a", "s", "e", " ", "s", "p", "e", "c", "i", "f", "y", ":", " ", "w",
      "h", "i", "c", "h">>,
    <<"e", "c", "h", "o", " ", DQ, "D", "e", "c", "l", "i", "n", "e", "d", ":", " ", "n",
      "o", DQ>>,
    <<"e", "c", "h", "o", " ", DQ, "P", "l", "e", "a", "s", "e", " ", "s", "p", "e", "c",
      "i", "f", "y", ":", " ", "w", "h", "i", "c", "h", DQ>>,
    \* the decline output the system prompt asks for
    <<"e", "c", "h", "o", " ", DQ, "D", "e", "c", "l", "i", "n", "e", "d", DQ>> }

AutoExecuteValues == {"none", "safe", "moderate", "all", "sometimes"}

\* the values of every variable processQuery owns, before it runs
QueryIdle ==
  /\ stdout = <<>>
  /\ stderr = <<>>
  /\ executed = <<>>
  /\ err = "nil"

\* the provider configurations a query runs under: the default one, OpenAI
\* with a key in the file or in the environment, DeepSeek without a key and
\* with a key and an empty model, and a provider name GetProvider rejects
QueryConfigs ==
  LET File(p, k, m) == [provider |-> p, section |-> IF p = "bogus" THEN "local" ELSE p,
                        api_key |-> k, model |-> m, url |-> {}]
      Env(S) == [n \in ProviderNames \ {"local"} |-> IF n \in S THEN "sk-env" ELSE ""]
  IN  { Load(File("local", "", {}), Env({})),
        Load(File("openai", "sk-file", {}), Env({})),
        Load(File("openai", "", {}), Env({"openai"})),
        Load(File("deepseek", "", {}), Env({"claude"})),
        Load(File("deepseek", "sk-file", {<<>>}), Env({})),
        Load(File("bogus", "", {}), Env({})) }

\* the spinner's message as Start prints it when standard output is no terminal
Thinking == <<"T", "h", "i", "n", "k", "i", "n", "g", ".", ".", ".", ".", ".", ".">>

MaxFrames == 2

Init ==
  /\ cfg \in {[DefaultSafety EXCEPT !.BlockedCommands = b, !.AutoExecute = a,
                                    !.RequireConfirmDangerous = r] :
                b \in BlockLists, a \in AutoExecuteValues, r \in BOOLEAN}
  /\ execFlag \in BOOLEAN
  /\ response = <<>>
  /\ command = <<>>
  /\ risk = Safe
  /\ calls = <<>>
  /\ QueryIdle
  /\ llmcfg \in QueryConfigs
  /\ providerFlag \in {"", "claude"}
  /\ provider = NoProvider
  /\ requests = <<>>
  /\ spinner \in {[SpinnerIdle EXCEPT !.terminal = t] : t \in BOOLEAN}
  /\ local = LocalIdle
  /\ selections = <<>>
  /\ pc = "provider"

\* provider, err := llm.GetProvider(providerName)
PQ_GetProvider ==
  /\ pc = "provider"
  /\ LET providerName == IF providerFlag # "" THEN providerFlag ELSE llmcfg.Provider
     IN  provider' = GetProvider(llmcfg, providerName)
  /\ IF provider' = NoProvider
       THEN err' = "provider error" /\ pc' = "done"
       ELSE err' = err /\ pc' = "available"
  /\ UNCHANGED <<cfg, execFlag, response, command, risk, calls, stdout, stderr, executed>>
  /\ UNCHANGED <<llmcfg, providerFlag, requests, spinner, local, selections>>

\* PQ_CheckAvailable without the check
PQ_CheckAvailable_Unchecked ==
  /\ pc = "available"
  /\ pc' = "spin"
  /\ UNCHANGED <<cfg, execFlag, response, command, risk, calls, queryVars, backendVars>>

\* if providerName != "local" && !provider.IsAvailable(): the setup hint is
\* the error returned
PQ_CheckAvailable ==
  /\ pc = "available"
  /\ IF provider.name # "local" /\ ~IsAvailable(provider)
       THEN err' = "provider not configured. Set API key" /\ pc' = "done"
       ELSE err' = err /\ pc' = "spin"
  /\ UNCHANGED <<cfg, execFlag, response, command, risk, calls, stdout, stderr, executed>>
  /\ UNCHANGED backendVars

\* spinner.Start(): without a terminal the message is printed and no
\* goroutine starts
PQ_SpinnerStart ==
  /\ pc = "spin"
  /\ IF ~spinner.terminal
       THEN /\ stdout' = Append(stdout, [kind |-> "progress", text |-> Thinking])
            /\ spinner' = spinner
       ELSE /\ stdout' = stdout
            /\ spinner' = IF spinner.active THEN spinner
                          ELSE [spinner EXCEPT !.active = TRUE, !.task = "select"]
  /\ pc' = "generate"
  /\ UNCHANGED <<cfg, execFlag, response, command, risk, calls, stderr, executed, err>>
  /\ UNCHANGED <<llmcfg, providerFlag, provider, requests, local, selections>>

\* the goroutine's select: the stop channel if it is closed, else a frame
Spin_Select ==
  /\ spinner.panic = ""
  /\ spinner.task = "select"
  /\ spinner.stop = "closed" \/ spinner.frames < MaxFrames
  /\ spinner' = [spinner EXCEPT !.task = IF spinner.stop = "closed" THEN "clear"
                                         ELSE "draw"]
  /\ UNCHANGED <<cfg, response, command, risk, calls, pc, queryVars>>
  /\ UNCHANGED <<llmcfg, providerFlag, provider, requests, local, selections>>

\* the goroutine draws a frame and sleeps
Spin_Draw ==
  /\ spinner.panic = ""
  /\ spinner.task = "draw"
  /\ spinner' = [spinner EXCEPT !.frames = @ + 1, !.task = "select"]
  /\ UNCHANGED <<cfg, response, command, risk, calls, pc, queryVars>>
  /\ UNCHANGED <<llmcfg, providerFlag, provider, requests, local, selections>>

\* close(ch): closing a closed channel panics
ClosePanic(ch) == IF ch = "closed" THEN "close of closed channel" ELSE ""

\* the goroutine clears the line and returns; the deferred close(s.done)
Spin_Clear ==
  /\ spinner.panic = ""
  /\ spinner.task = "clear"
  /\ spinner' = [spinner EXCEPT !.cleared = TRUE, !.task = "exited", !.done = "closed",
                                !.panic = ClosePanic(spinner.done)]
  /\ UNCHANGED <<cfg, response, command, risk, calls, pc, queryVars>>
  /\ UNCHANGED <<llmcfg, providerFlag, provider, requests, local, selections>>

\* what a backend answers to a chat request: a transport or API error, or a
\* successful response whose blocks are the choices (OpenAI, DeepSeek), the
\* content blocks (Claude) or the one message (Ollama); a block that is not
\* text carries none
Replies ==
  LET Text(c) == [type |-> "text", text |-> c]
      ToolUse == [type |-> "tool_use", text |-> <<>>]
  IN  {[err |-> TRUE, blocks |-> <<>>]}
        \cup {[err |-> FALSE, blocks |-> b] :
                b \in {<<>>, <<ToolUse>>, <<Text(<<"l", "s">>), Text(<<" ", "-", "l">>)>>}
                        \cup {<<Text(c)>> : c \in ModelOutputs}}

\* OpenAIProvider.Generate from the reply on
OpenAIGenerate(reply) ==
  IF reply.err THEN [text |-> <<>>, err |-> "backend error"]
  ELSE IF Len(reply.blocks) = 0 THEN [text |-> <<>>, err |-> "nil"]
  ELSE [text |-> TrimSpace(reply.blocks[1].text), err |-> "nil"]

\* DeepSeekProvider.Generate from the reply on
DeepSeekGenerate(reply) ==
  IF reply.err THEN [text |-> <<>>, err |-> "backend error"]
  ELSE IF Len(reply.blocks) = 0 THEN [text |-> <<>>, err |-> "nil"]
  ELSE [text |-> TrimSpace(reply.blocks[1].text), err |-> "nil"]

\* the loop over message.Content: the text blocks, concatenated
RECURSIVE TextOf(_)
TextOf(blocks) ==
  IF Len(blocks) = 0 THEN <<>>
  ELSE (IF blocks[1].type = "text" THEN blocks[1].text ELSE <<>>) \o TextOf(Tail(blocks))

\* ClaudeProvider.Generate from the reply on
ClaudeGenerate(reply) ==
  IF reply.err THEN [text |-> <<>>, err |-> "backend error"]
  ELSE IF Len(reply.blocks) = 0 THEN [text |-> <<>>, err |-> "nil"]
  ELSE [text |-> TrimSpace(TextOf(reply.blocks)), err |-> "nil"]

\* LocalProvider.Generate from the reply on: result.Message.Content is the
\* message's content, the empty string when the reply holds none
LocalGenerate(reply) ==
  IF reply.err THEN [text |-> <<>>, err |-> "backend error"]
  ELSE LET content == IF Len(reply.blocks) = 0 THEN <<>> ELSE reply.blocks[1].text
       IN  [text |-> cleanResponse(content), err |-> "nil"]

\* Generate with a reply without content reported as an error
Generate_EmptyIsError(p, reply) ==
  LET r == CASE p.name = "local"    -> LocalGenerate(reply)
             [] p.name = "openai"   -> OpenAIGenerate(reply)
             [] p.name = "claude"   -> ClaudeGenerate(reply)
             [] p.name = "deepseek" -> DeepSeekGenerate(reply)
  IN  IF r.text = <<>> THEN [text |-> <<>>, err |-> "backend error"] ELSE r

\* provider.Generate(ctx, systemPrompt, userPrompt), by the provider's type
Generate(p, reply) ==
  CASE p.name = "local"    -> LocalGenerate(reply)
    [] p.name = "openai"   -> OpenAIGenerate(reply)
    [] p.name = "claude"   -> ClaudeGenerate(reply)
    [] p.name = "deepseek" -> DeepSeekGenerate(reply)

\* response, err := provider.Generate(...): the request goes out, the reply
\* comes back and Generate turns it into the text and the error
PQ_Generate ==
  /\ pc = "generate"
  /\ \E reply \in Replies :
       /\ requests' = Append(requests, [provider |-> provider.name,
                                        model |-> provider.model, reply |-> reply])
       /\ response' = Generate(provider, reply).text
       /\ err' = Generate(provider, reply).err
  /\ pc' = "stop"
  /\ UNCHANGED <<cfg, execFlag, command, risk, calls, stdout, stderr, executed>>
  /\ UNCHANGED <<llmcfg, providerFlag, provider, spinner, local, selections>>

\* spinner.Stop() up to close(s.stop)
PQ_SpinnerStop ==
  /\ pc = "stop"
  /\ IF ~spinner.active
       THEN spinner' = spinner /\ pc' = "inspect"
       ELSE /\ spinner' = [spinner EXCEPT !.active = FALSE, !.stop = "closed"]
            /\ pc' = "wait"
  /\ UNCHANGED <<cfg, execFlag, response, command, risk, calls, queryVars>>
  /\ UNCHANGED <<llmcfg, providerFlag, provider, requests, local, selections>>

\* PQ_SpinnerWait without the receive from s.done
PQ_SpinnerWait_NoReceive ==
  /\ pc = "wait"
  /\ pc' = "inspect"
  /\ UNCHANGED <<cfg, execFlag, response, command, risk, calls, queryVars, backendVars>>

\* spinner.Stop(): <-s.done
PQ_SpinnerWait ==
  /\ pc = "wait"
  /\ spinner.done = "closed"
  /\ pc' = "inspect"
  /\ UNCHANGED <<cfg, execFlag, response, command, risk, calls, queryVars, backendVars>>

\* if err != nil { return fmt.Errorf("generation failed: %w", err) }
PQ_Inspect ==
  /\ pc = "inspect"
  /\ IF err # "nil"
       THEN err' = "generation failed" /\ pc' = "done"
       ELSE err' = err /\ pc' = "extract"
  /\ UNCHANGED <<cfg, execFlag, response, command, risk, calls, stdout, stderr, executed>>
  /\ UNCHANGED backendVars

\* command := executor.ExtractCommand(response); an empty command ends the query
PQ_Extract ==
  /\ pc = "extract"
  /\ command' = ExtractCommand(response)
  /\ IF command' = <<>>
       THEN err' = "could not generate a valid command" /\ pc' = "done"
       ELSE err' = err /\ pc' = "sentinel"
  /\ UNCHANGED <<cfg, execFlag, response, risk, calls, stdout, stderr, executed>>
  /\ UNCHANGED backendVars

Declined == <<"D", "e", "c", "l", "i", "n", "e", "d", ":">>
PleaseSpecify ==
  <<"P", "l", "e", "a", "s", "e", " ", "s", "p", "e", "c", "i", "f", "y", ":">>
EchoQuote == <<"e", "c", "h", "o", " ", DQ>>

\* the decline output the system prompt tells the model to emit
DeclineOutput == EchoQuote \o <<"D", "e", "c", "l", "i", "n", "e", "d", DQ>>

\* the declined and needs-clarification shapes: the message is printed and
\* the query ends
PQ_Sentinel ==
  /\ pc = "sentinel"
  /\ IF HasPrefix(command, Declined) \/ HasPrefix(command, PleaseSpecify)
       THEN /\ stdout' = Append(stdout, [kind |-> "message", text |-> command])
            /\ pc' = "done"
       ELSE IF \/ HasPrefix(command, EchoQuote \o Declined)
               \/ HasPrefix(command, EchoQuote \o PleaseSpecify)
       THEN /\ stdout' = Append(stdout,
                 [kind |-> "message",
                  text |-> TrimSuffix(TrimPrefix(command, EchoQuote), <<DQ>>)])
            /\ pc' = "done"
       ELSE /\ stdout' = stdout
            /\ pc' = "tool"
  /\ UNCHANGED <<cfg, execFlag, response, command, risk, calls, stderr, executed, err>>
  /\ UNCHANGED backendVars

\* the advisory when the command's first tool is not installed
PQ_ToolCheck ==
  /\ pc = "tool"
  /\ \E onPath \in BOOLEAN :
       LET tool == GetFirstTool(command)
       IN  stdout' = IF tool # <<>> /\ ~IsToolAvailable(tool, onPath)
                       THEN Append(stdout, [kind |-> "advisory", text |-> tool])
                       ELSE stdout
  /\ pc' = "assess"
  /\ UNCHANGED <<cfg, execFlag, response, command, risk, calls, stderr, executed, err>>
  /\ UNCHANGED backendVars

\* PQ_Assess with the verdict computed on the raw response
PQ_Assess_OnResponse ==
  /\ pc = "assess"
  /\ risk' = AssessRisk(response)
  /\ calls' = Append(calls, [command |-> response, blocked |-> cfg.BlockedCommands,
                              risk |-> AssessRisk(response)])
  /\ pc' = "decide"
  /\ UNCHANGED <<cfg, execFlag, response, command, stdout, stderr, executed, err>>
  /\ UNCHANGED backendVars

\* risk := executor.AssessRisk(command)
PQ_Assess ==
  /\ pc = "assess"
  /\ risk' = AssessRisk(command)
  /\ calls' = Append(calls, [command |-> command, blocked |-> cfg.BlockedCommands,
                              risk |-> AssessRisk(command)])
  /\ pc' = "decide"
  /\ UNCHANGED <<cfg, execFlag, response, command, stdout, stderr, executed, err>>
  /\ UNCHANGED backendVars

\* PQ_Decide with a Dangerous command held back when the configuration asks
\* for a confirmation
PQ_Decide_ConfirmDangerous ==
  /\ pc = "decide"
  /\ IF risk = Critical
       THEN /\ stderr' = Append(stderr, "DANGER: This command is destructive!")
            /\ stdout' = Append(stdout, [kind |-> "command", text |-> command])
            /\ UNCHANGED <<executed, err>>
       ELSE /\ stderr' = IF risk = Dangerous
                           THEN Append(stderr, "WARNING: Review before running")
                           ELSE stderr
            /\ stdout' = Append(stdout, [kind |-> "command", text |-> command])
            /\ IF execFlag /\ ~(risk = Dangerous /\ cfg.RequireConfirmDangerous)
                 THEN /\ executed' = Append(executed, command)
                      /\ err' \in {"nil", "exit status 1"}
                 ELSE UNCHANGED <<executed, err>>
  /\ pc' = "done"
  /\ UNCHANGED <<cfg, execFlag, response, command, risk, calls>>
  /\ UNCHANGED backendVars

\* PQ_Decide without the return that ends the Critical branch
PQ_Decide_CriticalFallsThrough ==
  /\ pc = "decide"
  /\ stderr' = IF risk = Critical
                 THEN Append(stderr, "DANGER: This command is destructive!")
                 ELSE IF risk = Dangerous
                 THEN Append(stderr, "WARNING: Review before running")
                 ELSE stderr
  /\ stdout' = Append(stdout, [kind |-> "command", text |-> command])
  /\ IF execFlag
       THEN /\ executed' = Append(executed, command)
            /\ err' \in {"nil", "exit status 1"}
       ELSE UNCHANGED <<executed, err>>
  /\ pc' = "done"
  /\ UNCHANGED <<cfg, execFlag, response, command, risk, calls>>
  /\ UNCHANGED backendVars

\* the outcome: a Critical command is printed under the danger warning and
\* nothing more happens; any other command is printed, after the warning when
\* it is Dangerous, and with -x handed to ExecuteCommand, whose error (the
\* command's exit status) is the query's
PQ_Decide ==
  /\ pc = "decide"
  /\ IF risk = Critical
       THEN /\ stderr' = Append(stderr, "DANGER: This command is destructive!")
            /\ stdout' = Append(stdout, [kind |-> "command", text |-> command])
            /\ UNCHANGED <<executed, err>>
       ELSE /\ stderr' = IF risk = Dangerous
                           THEN Append(stderr, "WARNING: Review before running")
                           ELSE stderr
            /\ stdout' = Append(stdout, [kind |-> "command", text |-> command])
            /\ IF execFlag
                 THEN /\ executed' = Append(executed, command)
                      /\ err' \in {"nil", "exit status 1"}
                 ELSE UNCHANGED <<executed, err>>
  /\ pc' = "done"
  /\ UNCHANGED <<cfg, execFlag, response, command, risk, calls>>
  /\ UNCHANGED backendVars

Next ==
  \/ PQ_GetProvider
  \/ PQ_CheckAvailable
  \/ PQ_SpinnerStart
  \/ Spin_Select
  \/ Spin_Draw
  \/ Spin_Clear
  \/ PQ_Generate
  \/ PQ_SpinnerStop
  \/ PQ_SpinnerWait
  \/ PQ_Inspect
  \/ PQ_Extract
  \/ PQ_Sentinel
  \/ PQ_ToolCheck
  \/ PQ_Assess
  \/ PQ_Decide

Spec == Init /\ [][Next]_vars

-----------------------------------------------------------------------------
(* The inputs of the classifier: commands of up to MaxWords words joined by *)
(* single spaces, with or without a space before and after.                 *)

MaxWords == 2

Words ==
  { <<"r", "m", " ", "-", "r", "f">>,
    <<"/">>,
    <<"/", "t", "m", "p", "/", "b", "u", "i", "l", "d">>,
    <<"b", "u", "i", "l", "d">>,
    <<"l", "s">>,
    <<"c", "u", "r", "l", " ", "x">>,
    <<"|", " ", "s", "h">>,
    <<"t", "r", "u", "n", "c", "a", "t", "e">>,
    <<"s", "u", "d", "o">>,
    <<">", " ", "f">>,
    <<">", "|", " ", "f">>,
    <<"g", "i", "t", " ", "p", "u", "s", "h">>,
    <<"m", "k", "d", "i", "r">>,
    <<"c", "p">>,
    <<"-", "-", "f", "o", "r", "c", "e">> }

WordLists == UNION {[1..n -> Words] : n \in 0..MaxWords}

Pads == {<<>>, <<" ">>}

Commands == {l \o Join(ws) \o r : l \in Pads, r \in Pads, ws \in WordLists}

InitRisk ==
  /\ cfg \in {[DefaultSafety EXCEPT !.BlockedCommands = b] : b \in BlockLists}
  /\ command \in Commands
  /\ response = <<>>
  /\ risk = Safe
  /\ calls = <<>>
  /\ pc = "input"
  /\ execFlag = FALSE
  /\ QueryIdle
  /\ BackendIdle

\* one call AssessRisk(command)
Assess ==
  /\ pc = "input"
  /\ risk' = AssessRisk(command)
  /\ pc' = "assessed"
  /\ UNCHANGED <<cfg, response, command, calls, queryVars>>
  /\ UNCHANGED backendVars

NextRisk == Assess

SpecRisk == InitRisk /\ [][NextRisk]_vars

-----------------------------------------------------------------------------
(* A run of several AssessRisk calls, the block list changed between calls  *)
(* by config.Set.                                                           *)

MaxCalls == 3

CallCommands ==
  { <<>>,
    <<"s", "u", "d", "o", " ">>,
    <<"r", "m", " ", "-", "r", "f", " ", "/">>,
    <<"t", "r", "u", "n", "c", "a", "t", "e">> }

InitCalls ==
  /\ cfg \in {[DefaultSafety EXCEPT !.BlockedCommands = b] : b \in BlockLists}
  /\ command = <<>>
  /\ response = <<>>
  /\ risk = Safe
  /\ calls = <<>>
  /\ pc = "calls"
  /\ execFlag = FALSE
  /\ QueryIdle
  /\ BackendIdle

\* Call with a verdict that never falls below the previous call's
Call_Sticky(c) ==
  LET level == IF AssessRisk(c) > risk THEN AssessRisk(c) ELSE risk
  IN  /\ Len(calls) < MaxCalls
      /\ command' = c
      /\ risk' = level
      /\ calls' = Append(calls, [command |-> c, blocked |-> cfg.BlockedCommands,
                                  risk |-> level])
      /\ UNCHANGED <<cfg, response, pc, queryVars>>
      /\ UNCHANGED backendVars

\* a caller evaluates AssessRisk(c)
Call(c) ==
  /\ Len(calls) < MaxCalls
  /\ command' = c
  /\ risk' = AssessRisk(c)
  /\ calls' = Append(calls, [command |-> c, blocked |-> cfg.BlockedCommands,
                              risk |-> AssessRisk(c)])
  /\ UNCHANGED <<cfg, response, pc, queryVars>>
  /\ UNCHANGED backendVars

\* config.Set("safety.blocked_commands", b)
SetBlockedCommands(b) ==
  /\ b # cfg.BlockedCommands
  /\ cfg' = [cfg EXCEPT !.BlockedCommands = b]
  /\ UNCHANGED <<response, command, risk, calls, pc, queryVars>>
  /\ UNCHANGED backendVars

NextCalls ==
  \/ \E c \in CallCommands : Call(c)
  \/ \E b \in BlockLists : SetBlockedCommands(b)

SpecCalls == InitCalls /\ [][NextCalls]_vars

-----------------------------------------------------------------------------
(* AssessRisk on two commands and on the compound command the shell makes   *)
(* of them.                                                                 *)

Parts ==
  { <<"l", "s">>,
    <<"c", "a", "t", " ", "f">>,
    <<"e", "c", "h", "o", " ", "h", "i">>,
    <<"m", "k", "d", "i", "r", " ", "d">>,
    <<"g", "i", "t", " ", "p", "u", "s", "h">>,
    <<"r", "m", " ", "-", "r", "f", " ", "b", "u", "i", "l", "d">>,
    <<"s", "u", "d", "o", " ", "r", "e", "b", "o", "o", "t">>,
    <<"k", "i", "l", "l", " ", "1">>,
    <<"r", "m", " ", "-", "r", "f", " ", "/">> }

\* a; b    a && b    a | b
Separators == {<<";", " ">>, <<" ", "&", "&", " ">>, <<" ", "|", " ">>}

InitCompose ==
  /\ cfg \in {[DefaultSafety EXCEPT !.BlockedCommands = b] : b \in BlockLists}
  /\ command = <<>>
  /\ response = <<>>
  /\ risk = Safe
  /\ calls = <<>>
  /\ pc = "parts"
  /\ execFlag = FALSE
  /\ QueryIdle
  /\ BackendIdle

\* AssessRisk(a), AssessRisk(b) and AssessRisk of the compound command
Compose(a, sep, b) ==
  LET Called(c) == [command |-> c, blocked |-> cfg.BlockedCommands, risk |-> AssessRisk(c)]
  IN  /\ pc = "parts"
      /\ command' = a \o sep \o b
      /\ risk' = AssessRisk(a \o sep \o b)
      /\ calls' = <<Called(a), Called(b), Called(a \o sep \o b)>>
      /\ pc' = "composed"
      /\ UNCHANGED <<cfg, response, queryVars>>
      /\ UNCHANGED backendVars

NextCompose == \E a \in Parts, sep \in Separators, b \in Parts : Compose(a, sep, b)

SpecCompose == InitCompose /\ [][NextCompose]_vars

\* C23: the risk of a compound command is at least the risk of each part.
C23_CompositionMonotone ==
  pc = "composed" =>
    /\ calls[3].risk >= calls[1].risk
    /\ calls[3].risk >= calls[2].risk

-----------------------------------------------------------------------------
(* The inputs of the extractor: a body of one line of up to MaxLineAtoms    *)
(* atoms, or of two short lines, bare or wrapped in a fenced code block     *)
(* with one of the tags the pattern knows or with none.                     *)

MaxLineAtoms == 3

LineAtoms ==
  { <<"l", "s">>,
    <<" ">>,
    <<"-", "l", "a">>,
    <<BT>>,
    <<"#", " ">>,
    <<"$", " ">>,
    <<"C", "o", "m", "m", "a", "n", "d", ":">>,
    <<"I", " ">> }

RECURSIVE Concat(_)
Concat(xs) == IF Len(xs) = 0 THEN <<>> ELSE xs[1] \o Concat(Tail(xs))

Lines == {Concat(xs) : xs \in UNION {[1..n -> LineAtoms] : n \in 0..MaxLineAtoms}}

ShortLines == LineAtoms \cup {<<>>}

Bodies == Lines \cup {a \o <<"\n">> \o b : a, b \in ShortLines}

\* ```tag, a line break, the body, a line break, ```
Fenced(tag, body) == Fence \o tag \o <<"\n">> \o body \o <<"\n">> \o Fence

\* responses in which the first line passes looksLikeCommand and a structural
\* signal follows, and the prose responses of the fallback
ScenarioRaws ==
  { <<"l", "s", "\n", "$", " ", "l", "s", " ", "-", "l", "a">>,
    <<"l", "s", " ", BT, "l", "s", " ", "-", "l", "a", BT>>,
    <<"l", "s", "\n", BT, BT, BT, "s", "h", "\n", "l", "s", " ", "-", "l", "a", "\n",
      BT, BT, BT>>,
    <<"l", "s", " ", "-", "l", "a", "\n", "r", "m", " ", "x">>,
    <<"I", " ", "t", "h", "i", "n", "k", " ", "y", "o", "u", " ", "w", "a", "n", "t",
      ":", " ", "l", "s", " ", "-", "l", "a">>,
    <<"C", "o", "m", "m", "a", "n", "d", ":", " ", "I", " ", "t", "h", "i", "n", "k",
      "\n", "y", "o", "u", " ", "w", "a", "n", "t", " ", "l", "s">>,
    <<"l", "s", "o", "f", " ", "-", "i">> }

Raws ==
  Bodies \cup {Fenced(FenceTags[n], b) : n \in DOMAIN FenceTags, b \in Bodies}
         \cup ScenarioRaws

InitExtract ==
  /\ cfg = DefaultSafety
  /\ response \in Raws
  /\ command = <<>>
  /\ risk = Safe
  /\ calls = <<>>
  /\ pc = "raw"
  /\ execFlag = FALSE
  /\ QueryIdle
  /\ BackendIdle

\* command := ExtractCommand(response)
Extract ==
  /\ pc = "raw"
  /\ command' = ExtractCommand(response)
  /\ pc' = "extracted"
  /\ UNCHANGED <<cfg, response, risk, calls, queryVars>>
  /\ UNCHANGED backendVars

\* the extractor applied to its own output: response holds the first output,
\* command the second
ExtractAgain ==
  /\ pc = "extracted"
  /\ response' = command
  /\ command' = ExtractCommand(command)
  /\ pc' = "extractedAgain"
  /\ UNCHANGED <<cfg, risk, calls, queryVars>>
  /\ UNCHANGED backendVars

NextExtract == Extract \/ ExtractAgain

SpecExtract == InitExtract /\ [][NextExtract]_vars

FencedLine(tag) ==
  SubSeq(response, Len(Fence) + Len(tag) + 2, Len(response) - Len(Fence) - 1)

IsFencedLine(tag) ==
  /\ Len(response) >= 2 * Len(Fence) + Len(tag) + 2
  /\ response = Fenced(tag, FencedLine(tag))
  /\ \A i \in DOMAIN FencedLine(tag) : FencedLine(tag)[i] # "\n"

Stripped == StripPrefixes(TrimSpace(response), 1)

\* a line that starts, after white space, with $, > or #
markerLineRe ==
  Cat(<<Alt(<<Bol, Ch("\n")>>),
        Star([t |-> "in", cs |-> SpaceChars \ {"\n"}]),
        [t |-> "in", cs |-> {"$", ">", "#"}]>>)

HasFencedBlock(s) == MatchString(codeBlockRe, s)
HasInlineSpan(s) == MatchString(inlineCodeRe, s)
HasMarkerLine(s) == MatchString(markerLineRe, s)
FirstLine(s) == TrimSpace(SplitLines(s)[1])

\* C11: after the leading-label strip the rules apply in a fixed order and the
\* first that matches decides: the first fenced block, else the first inline
\* span, else the first line that starts with $, > or # (marker stripped),
\* else the first line if it passes looksLikeCommand, else the whole text.  A
\* structural signal is returned whether or not the first line passes.
C11_FixedOrder ==
  pc = "extracted" =>
    LET s == Stripped
        lines == SplitLines(s)
    IN  CASE HasFencedBlock(s) -> command = TrimSpace(CodeBlockMatch(s)[1])
          [] ~HasFencedBlock(s) /\ HasInlineSpan(s) ->
               command = TrimSpace(InlineCodeMatch(s)[1])
          [] ~HasFencedBlock(s) /\ ~HasInlineSpan(s) /\ HasMarkerLine(s) ->
               \E n \in DOMAIN lines :
                 /\ IsMarkerLine(TrimSpace(lines[n]))
                 /\ \A m \in 1..(n - 1) : ~IsMarkerLine(TrimSpace(lines[m]))
                 /\ command = StripMarker(TrimSpace(lines[n]))
          [] OTHER ->
               command = IF looksLikeCommand(FirstLine(s)) THEN FirstLine(s) ELSE s

\* "ls\n$ ls -la": the first line passes looksLikeCommand, the marker line is
\* what is returned
C11_Witness ==
  /\ pc = "extracted"
  /\ response = <<"l", "s", "\n", "$", " ", "l", "s", " ", "-", "l", "a">>
  /\ looksLikeCommand(FirstLine(Stripped))
  /\ command = <<"l", "s", " ", "-", "l", "a">>

\* no fenced block, no inline span, no marker line, and a first line that
\* fails looksLikeCommand
FallsThrough(s) ==
  /\ ~HasFencedBlock(s)
  /\ ~HasInlineSpan(s)
  /\ ~HasMarkerLine(s)
  /\ ~looksLikeCommand(FirstLine(s))

\* C12 as stated: a text with no structural signal and a first line that
\* fails the heuristic is returned whole, trimmed and otherwise unchanged.
C12_WholeTextUnchanged ==
  pc = "extracted" =>
    (FallsThrough(TrimSpace(response)) => command = TrimSpace(response))

\* C12, amended: when the text left by the leading-label strip has no
\* structural signal and its first line fails the heuristic, that text is
\* returned whole and unchanged.
C12_FallbackKeepsStrippedText ==
  pc = "extracted" => (FallsThrough(Stripped) => command = Stripped)

\* "I think you want: ls -la" comes back as it is
C12_Witness ==
  /\ pc = "extracted"
  /\ response = 
      <<"I", " ", "t", "h", "i", "n", "k", " ", "y", "o", "u", " ", "w", "a", "n", "t",
        ":", " ", "l", "s", " ", "-", "l", "a">>
  /\ FallsThrough(Stripped)
  /\ command = response

-----------------------------------------------------------------------------
(* The classifier's claims, checked under SpecRisk.                         *)

Cmd_rm_rf_root == <<"r", "m", " ", "-", "r", "f", " ", "/">>
Cmd_curl_sh == <<"c", "u", "r", "l", " ", "x", " ", "|", " ", "s", "h">>

\* C2: a command that contains a configured blocked entry as a verbatim
\* substring is Critical, whatever the pattern tables and the safe list say.
C2_BlockListDominates ==
  pc = "assessed" =>
    ((\E i \in DOMAIN cfg.BlockedCommands : Contains(command, cfg.BlockedCommands[i]))
       => risk = Critical)

\* C3: the tables are tried most severe first and the first match decides:
\* Critical on a critical pattern, else Dangerous on a dangerous pattern, else
\* Moderate on a moderate pattern, else Safe on a safe-list prefix (the
\* patterns are matched, as AssessRisk matches them, against the trimmed
\* command; the block list comes before the tables).
C3_MostSevereFirst ==
  pc = "assessed" =>
    LET t == TrimSpace(command)
        b == BlockListStep(t)
        c == AnyMatch(criticalPatterns, t)
        d == AnyMatch(dangerousPatterns, t)
        m == AnyMatch(moderatePatterns, t)
    IN  /\ c => risk = Critical
        /\ (d /\ ~c /\ ~b) => risk = Dangerous
        /\ (m /\ ~d /\ ~c /\ ~b) => risk = Moderate
        /\ (SafePrefix(t) /\ ~m /\ ~d /\ ~c /\ ~b) => risk = Safe
        /\ d => risk >= Dangerous
        /\ m => risk >= Moderate

\* a download piped into a shell: a critical pattern and a safe-list prefix
\* both match, no block-list entry does, and the verdict is Critical
C3_Witness ==
  /\ pc = "assessed"
  /\ command = Cmd_curl_sh
  /\ ~BlockListStep(command)
  /\ SafePrefix(command)
  /\ AnyMatch(criticalPatterns, command)
  /\ risk = Critical

\* the command names an entry of the safe-command table: it is the entry, or
\* the entry followed by white space
NamesSafeCommand(t) ==
  \E i \in DOMAIN safeCommands :
    \/ t = safeCommands[i]
    \/ \E sp \in SpaceChars : HasPrefix(t, safeCommands[i] \o <<sp>>)

\* C4: a command with no blocked substring, matching no critical, dangerous
\* or moderate pattern, and not naming an entry of the safe-command table, is
\* Moderate, never Safe.
C4_UnknownNeverSafe ==
  pc = "assessed" =>
    LET t == TrimSpace(command)
    IN  (/\ ~IsBlocked(command)
         /\ ~AnyMatch(criticalPatterns, t)
         /\ ~AnyMatch(dangerousPatterns, t)
         /\ ~AnyMatch(moderatePatterns, t)
         /\ ~NamesSafeCommand(t)) => risk = Moderate

\* the paths among Words other than the file system's root
NonRootPaths ==
  {<<"/", "t", "m", "p", "/", "b", "u", "i", "l", "d">>, <<"b", "u", "i", "l", "d">>}

\* C5: with the default block list, "rm -rf /" is Critical and "rm -rf" of
\* any other path, such as /tmp/build, is Dangerous.
C5_RootDeleteOnly ==
  (pc = "assessed" /\ cfg.BlockedCommands = DefaultBlockedCommands) =>
    /\ command = Cmd_rm_rf_root => risk = Critical
    /\ \A path \in NonRootPaths :
         command = <<"r", "m", " ", "-", "r", "f", " ">> \o path => risk = Dangerous

\* the command redirects output into a file: a > (alone, or the last
\* character of >>, N> and &>, or the first of >|) with a target after it
RedirectsToFile(t) ==
  \E i \in DOMAIN t :
    /\ t[i] = ">"
    /\ LET rest   == SubSeq(t, i + 1, Len(t))
           target == TrimSpace(IF HasPrefix(rest, <<"|">>) THEN Tail(rest) ELSE rest)
       IN  target # <<>> /\ target[1] \notin {">", "|", "&", ";"}

\* C27: a command that redirects output into a file is at least Dangerous,
\* also when it begins with a safe-list command.
C27_RedirectAtLeastDangerous ==
  (pc = "assessed" /\ RedirectsToFile(TrimSpace(command))) => risk >= Dangerous

\* C29: IsBlocked and the block-list step of AssessRisk agree on every
\* command, and a command IsBlocked refuses is Critical.
C29_BlockChecksAgree ==
  pc = "assessed" =>
    /\ IsBlocked(command) <=> BlockListStep(TrimSpace(command))
    /\ IsBlocked(command) => risk = Critical

-----------------------------------------------------------------------------
(* The orchestrator's claims, checked under Spec.                           *)

\* the query reached classification
Classified == calls # <<>>

\* C1: a command assessed Critical is never run: with or without -x,
\* processQuery prints it under the danger warning and returns without
\* handing anything to ExecuteCommand; and ShouldAutoExecute(Critical) is
\* false under every auto_execute setting.
C1_CriticalNeverRuns ==
  /\ ~ShouldAutoExecute(Critical)
  /\ (Classified /\ risk = Critical) => executed = <<>>
  /\ (pc = "done" /\ Classified /\ risk = Critical) =>
       /\ stderr = <<"DANGER: This command is destructive!">>
       /\ stdout[Len(stdout)] = [kind |-> "command", text |-> command]
       /\ err = "nil"

\* with -x and auto_execute "all", a Critical command was printed and the
\* query is over with nothing run
C1_Witness ==
  /\ pc = "done"
  /\ execFlag
  /\ cfg.AutoExecute = "all"
  /\ Classified
  /\ risk = Critical
  /\ stdout[Len(stdout)] = [kind |-> "command", text |-> command]
  /\ executed = <<>>

\* C6: when a query reaches classification, the string AssessRisk was called
\* on is the extracted command as it stands, it is the string its tables saw
\* (trimming it changes nothing), and it is the one string printed as the
\* command and, with -x, handed to ExecuteCommand.
C6_AssessedIsShownAndRun ==
  (pc = "done" /\ Classified) =>
    /\ Len(calls) = 1
    /\ calls[1].command = ExtractCommand(response)
    /\ calls[1].command = command
    /\ TrimSpace(calls[1].command) = calls[1].command
    /\ stdout[Len(stdout)] = [kind |-> "command", text |-> calls[1].command]
    /\ \A i \in DOMAIN stdout :
         stdout[i].kind = "command" => stdout[i].text = calls[1].command
    /\ \A i \in DOMAIN executed : executed[i] = calls[1].command
    /\ (execFlag /\ risk # Critical) => executed = <<calls[1].command>>

\* a response that extraction changed (white space, a fence or a label went)
\* was classified, printed and run with -x
C6_Witness ==
  /\ pc = "done"
  /\ Classified
  /\ execFlag
  /\ response # command
  /\ TrimSpace(response) # command
  /\ calls[1].command = command
  /\ executed = <<command>>
  /\ stdout[Len(stdout)] = [kind |-> "command", text |-> command]

\* a declined or needs-clarification shape: one processQuery looks for, or
\* the decline output of the system prompt
SentinelShape(c) ==
  \/ HasPrefix(c, Declined)
  \/ HasPrefix(c, PleaseSpecify)
  \/ HasPrefix(c, EchoQuote \o Declined)
  \/ HasPrefix(c, EchoQuote \o PleaseSpecify)
  \/ c = DeclineOutput

\* C13: once the extracted command has a declined or needs-clarification
\* shape, the query ends with an informational message only: AssessRisk is
\* not called, nothing is printed as a command and nothing is executed.
C13_SentinelEndsQuery ==
  (pc \in {"tool", "assess", "decide", "done"} /\ SentinelShape(command)) =>
    /\ pc = "done"
    /\ calls = <<>>
    /\ executed = <<>>
    /\ \A i \in DOMAIN stdout : stdout[i].kind # "command"
    /\ \E i \in DOMAIN stdout : stdout[i].kind = "message"

\* the steps of processQuery up to the return of spinner.Stop()
BeforeStopReturns == {"provider", "available", "spin", "generate", "stop", "wait"}

\* C18: for the OpenAI, Claude and DeepSeek providers IsAvailable is true
\* exactly when the configured key is not empty, and evaluating it sends
\* nothing; when the selected provider is one of them and is unavailable, the
\* query ends there with the setup hint and Generate is never called.
C18_KeyCheckAborts ==
  /\ [](\A n \in ProviderNames \ {"local"} :
          IsAvailable(GetProvider(llmcfg, n)) <=> Section(llmcfg, n).APIKey # "")
  /\ [][pc = "available" => requests' = requests]_vars
  /\ []((pc \notin {"provider", "available"} /\ provider.name \notin {"", "local"}
           /\ Section(llmcfg, provider.name).APIKey = "") =>
          /\ pc = "done"
          /\ err = "provider not configured. Set API key"
          /\ requests = <<>>
          /\ response = <<>>
          /\ stdout = <<>>
          /\ executed = <<>>)

\* --provider claude with no Claude key: the query ended with the hint
C18_Witness ==
  /\ pc = "done"
  /\ provider.name = "claude"
  /\ provider.apiKey = ""
  /\ err = "provider not configured. Set API key"
  /\ requests = <<>>

\* C19: the spinner is stopped whenever Generate has returned, with a result
\* or with an error, before the outcome is inspected: once processQuery is
\* past spinner.Stop() the spinner is inactive, its goroutine (if one was
\* started) has ended, and nothing about the spinner changes any more.
C19_SpinnerStoppedFirst ==
  /\ [](pc \notin BeforeStopReturns =>
          /\ ~spinner.active
          /\ spinner.task \in {"none", "exited"}
          /\ spinner.task = "exited" => spinner.cleared)
  /\ [][pc \notin BeforeStopReturns => spinner' = spinner]_vars

\* Generate failed while frames were being drawn; the goroutine has ended
C19_Witness ==
  /\ pc = "done"
  /\ err = "generation failed"
  /\ spinner.frames > 0
  /\ spinner.task = "exited"

\* C22: with -x, a command that reached the risk check is handed to the shell
\* if and only if its risk is not Critical: a Safe or Moderate one without a
\* warning, a Dangerous one after the warning, whatever the value of
\* require_confirm_dangerous, and nothing is printed between the warning and
\* the command.
C22_ExecuteUnlessCritical ==
  (pc = "done" /\ execFlag /\ calls # <<>>) =>
    /\ risk = AssessRisk(command)
    /\ executed = (IF risk = Critical THEN <<>> ELSE <<command>>)
    /\ stderr = (IF risk = Critical THEN <<"DANGER: This command is destructive!">>
                 ELSE IF risk = Dangerous THEN <<"WARNING: Review before running">>
                 ELSE <<>>)
    /\ stdout[Len(stdout)] = [kind |-> "command", text |-> command]
    /\ \A i \in 1..(Len(stdout) - 1) : stdout[i].kind \in {"progress", "advisory"}

C22_Witness ==
  /\ pc = "done"
  /\ execFlag
  /\ risk = Dangerous
  /\ cfg.RequireConfirmDangerous
  /\ executed = <<command>>

\* a successful reply without usable content: no block, or only blocks that
\* are not text or whose text is white space
NoUsableContent(reply) ==
  /\ ~reply.err
  /\ \A i \in DOMAIN reply.blocks :
       reply.blocks[i].type # "text" \/ TrimSpace(reply.blocks[i].text) = <<>>

\* the returns of processQuery after Generate came back, up to the extractor
AfterGenerate == {"stop", "wait", "inspect", "extract"}

\* C21: a successful reply without usable content makes Generate return the
\* empty text and no error, and the query then ends with "could not generate
\* a valid command", no command shown, classified or executed; a backend
\* error ends it with "generation failed" instead.
C21_EmptyResponseIsSoftFailure ==
  requests # <<>> =>
    LET reply == requests[Len(requests)].reply
    IN  /\ NoUsableContent(reply) =>
             /\ response = <<>>
             /\ pc \in AfterGenerate => err = "nil"
             /\ pc \notin AfterGenerate =>
                  pc = "done" /\ err = "could not generate a valid command"
             /\ \A i \in DOMAIN stdout : stdout[i].kind = "progress"
             /\ stderr = <<>>
             /\ calls = <<>>
             /\ executed = <<>>
        /\ (reply.err /\ pc \notin AfterGenerate) =>
             pc = "done" /\ err = "generation failed"

C21_Witness ==
  /\ pc = "done"
  /\ requests # <<>>
  /\ NoUsableContent(requests[Len(requests)].reply)
  /\ requests[Len(requests)].reply.blocks # <<>>
  /\ provider.name \in {"local", "claude"}
  /\ execFlag

-----------------------------------------------------------------------------
(* selectModelByRAM, called for machines of several sizes.                  *)

MaxRAMQuarters == 40
MaxSelections == 2

\* machine sizes in MiB: every quarter GiB up to the bound, and one MiB either
\* side of the two thresholds
RAMSizes ==
  {q * (GiB \div 4) : q \in 0..MaxRAMQuarters}
    \cup {4 * GiB - 1, 4 * GiB + 1, 8 * GiB - 1, 8 * GiB + 1}

InitRAM ==
  /\ cfg = DefaultSafety
  /\ response = <<>>
  /\ command = <<>>
  /\ risk = Safe
  /\ calls = <<>>
  /\ pc = "ram"
  /\ execFlag = FALSE
  /\ QueryIdle
  /\ BackendIdle

\* one call of selectModelByRAM on a machine of totalRAM MiB
SelectModel(totalRAM) ==
  /\ Len(selections) < MaxSelections
  /\ selections' = Append(selections, [ram |-> totalRAM,
                                        model |-> selectModelByRAM(totalRAM)])
  /\ UNCHANGED <<cfg, response, command, risk, calls, pc, queryVars>>
  /\ UNCHANGED <<llmcfg, providerFlag, provider, requests, spinner, local>>

NextRAM == \E totalRAM \in RAMSizes : SelectModel(totalRAM)

SpecRAM == InitRAM /\ [][NextRAM]_vars

\* the place of a model in the recommended table, smallest model first
ModelRank(m) == CHOOSE n \in 1..3 : availableModels[4 - n] = m

\* C17: the model selected is a step function of total RAM with inclusive
\* lower bounds: 8 GiB or more gives 7b, 4 GiB or more (and under 8) gives 3b,
\* less than 4 GiB gives 1.5b; the same RAM always gives the same model and
\* more RAM never gives a smaller model.
C17_StepFunction ==
  \A i \in DOMAIN selections :
    /\ selections[i].ram >= 8 * GiB => selections[i].model = Qwen7b
    /\ (selections[i].ram >= 4 * GiB /\ selections[i].ram < 8 * GiB)
         => selections[i].model = Qwen3b
    /\ selections[i].ram < 4 * GiB => selections[i].model = Qwen15b
    /\ \A j \in DOMAIN selections :
         /\ selections[i].ram = selections[j].ram
              => selections[i].model = selections[j].model
         /\ selections[i].ram <= selections[j].ram
              => ModelRank(selections[i].model) <= ModelRank(selections[j].model)

\* exactly 4 GiB selected 3b and then exactly 8 GiB selected 7b
C17_Witness ==
  /\ Len(selections) = 2
  /\ selections[1] = [ram |-> 4 * GiB, model |-> Qwen3b]
  /\ selections[2] = [ram |-> 8 * GiB, model |-> Qwen7b]

-----------------------------------------------------------------------------
(* A provider built from the configuration and asked to generate once.  For *)
(* the local provider that is LocalProvider.Generate with all it sets up:   *)
(* EnsureRunning (OllamaManager.EnsureInstalled, StartServer) and           *)
(* EnsureModelExists.  A health probe answers what the machine answers at   *)
(* that moment; nothing about the server is remembered between probes.      *)

BinPath == "~/.niko/bin/ollama"

\* the models the runtime may list
ModelNames == {Qwen7b \o <<"-", "q", "4", "_", "0">>, Qwen3b, Qwen15b, CustomModel}

\* the machine: the managed binary, a system-wide install, the models present
Machines ==
  {[LocalIdle EXCEPT !.installed = i, !.systemOllama = o, !.present = m] :
     i \in BOOLEAN, o \in BOOLEAN, m \in SUBSET ModelNames}

InitProvider ==
  /\ cfg = DefaultSafety
  /\ response = <<>>
  /\ command = <<>>
  /\ risk = Safe
  /\ calls = <<>>
  /\ pc = "new"
  /\ execFlag = FALSE
  /\ QueryIdle
  /\ providerFlag = ""
  /\ provider = NoProvider
  /\ requests = <<>>
  /\ spinner = SpinnerIdle
  /\ selections = <<>>
  /\ \/ /\ llmcfg \in {Load(f, e) : f \in {g \in ConfigFiles : /\ g.provider # "local"
                                                                /\ g.url = {}},
                                     e \in EnvKeys}
        /\ local = LocalIdle
     \/ /\ llmcfg \in {Load(f, [n \in ProviderNames \ {"local"} |-> ""]) :
                         f \in {g \in ConfigFiles : /\ g.provider = "local"
                                                    /\ g.section = "local"
                                                    /\ g.api_key = ""}}
        /\ local \in Machines

\* llm.GetProvider(cfg.Provider)
NewProvider ==
  /\ pc = "new"
  /\ provider' = GetProvider(llmcfg, llmcfg.Provider)
  /\ IF provider' = NoProvider
       THEN err' = "unknown provider" /\ pc' = "done"
       ELSE err' = err /\ pc' = "generate"
  /\ UNCHANGED <<cfg, response, command, risk, calls, execFlag, stdout, stderr, executed>>
  /\ UNCHANGED <<llmcfg, providerFlag, requests, spinner, local, selections>>

\* Generate of the OpenAI, Claude and DeepSeek providers: one request, with
\* the model the constructor stored; processQuery calls it only on a provider
\* that IsAvailable
API_Generate ==
  /\ pc = "generate"
  /\ provider.name # "local"
  /\ IsAvailable(provider)
  /\ requests' = Append(requests, [provider |-> provider.name, model |-> provider.model])
  /\ err' \in {"nil", "transport error"}
  /\ pc' = "done"
  /\ UNCHANGED <<cfg, response, command, risk, calls, execFlag, stdout, stderr, executed>>
  /\ UNCHANGED <<llmcfg, providerFlag, provider, spinner, local, selections>>

\* the LocalProvider after a health probe of the address url: a probe that
\* was answered with 200 adds the address to those that answered in this call
Probed(m, url, up) == [m EXCEPT !.answered = IF up THEN @ \cup {url} ELSE @]

\* LocalProvider.Generate, its first step: if !p.IsAvailable() ..., a probe
\* of the provider's own address
LP_Generate ==
  /\ pc = "generate"
  /\ provider.name = "local"
  /\ \E up \in BOOLEAN :
       /\ local' = Probed(local, provider.baseURL, up)
       /\ pc' = IF up THEN "ensure_model" ELSE "ensure_running"
  /\ UNCHANGED <<cfg, response, command, risk, calls, queryVars>>
  /\ UNCHANGED <<llmcfg, providerFlag, provider, requests, spinner, selections>>

\* LocalProvider.EnsureRunning, its first step: a second probe of the
\* provider's own address
LP_EnsureRunning ==
  /\ pc = "ensure_running"
  /\ \E up \in BOOLEAN :
       /\ local' = Probed(local, provider.baseURL, up)
       /\ pc' = IF up THEN "ensure_model" ELSE "ensure_installed"
  /\ UNCHANGED <<cfg, response, command, risk, calls, queryVars>>
  /\ UNCHANGED <<llmcfg, providerFlag, provider, requests, spinner, selections>>

\* EnsureInstalled without the look for a system-wide install
EnsureInstalled_NoSystemCheck ==
  /\ pc = "ensure_installed"
  /\ IF local.installed
       THEN /\ local' = [local EXCEPT !.isInternal = TRUE]
            /\ pc' = "start_server"
            /\ err' = err
       ELSE \E ok \in BOOLEAN :
              /\ local' = IF ok THEN [local EXCEPT !.downloads = @ + 1,
                                                   !.installed = TRUE,
                                                   !.isInternal = TRUE]
                          ELSE [local EXCEPT !.downloads = @ + 1]
              /\ pc' = IF ok THEN "start_server" ELSE "done"
              /\ err' = IF ok THEN err ELSE "failed to setup Ollama"
  /\ UNCHANGED <<cfg, response, command, risk, calls, execFlag, stdout, stderr, executed>>
  /\ UNCHANGED <<llmcfg, providerFlag, provider, requests, spinner, selections>>

\* OllamaManager.EnsureInstalled, as EnsureRunning calls it; downloadOllama
\* succeeds (the managed binary is written, isInternal is set) or fails
EnsureInstalled ==
  /\ pc = "ensure_installed"
  /\ IF local.installed
       THEN /\ local' = [local EXCEPT !.isInternal = TRUE]
            /\ pc' = "start_server"
            /\ err' = err
       ELSE IF local.systemOllama
       THEN /\ local' = [local EXCEPT !.isInternal = FALSE]
            /\ pc' = "start_server"
            /\ err' = err
       ELSE \E ok \in BOOLEAN :
              /\ local' = IF ok THEN [local EXCEPT !.downloads = @ + 1,
                                                   !.installed = TRUE,
                                                   !.isInternal = TRUE]
                          ELSE [local EXCEPT !.downloads = @ + 1]
              /\ pc' = IF ok THEN "start_server" ELSE "done"
              /\ err' = IF ok THEN err ELSE "failed to setup Ollama"
  /\ UNCHANGED <<cfg, response, command, risk, calls, execFlag, stdout, stderr, executed>>
  /\ UNCHANGED <<llmcfg, providerFlag, provider, requests, spinner, selections>>

GetOllamaCommand(m) == IF m.isInternal \/ m.installed THEN BinPath ELSE "ollama"

\* StartServer up to cmd.Start(): the command can only start if it exists
StartServer ==
  /\ pc = "start_server"
  /\ LET ollamaCmd == GetOllamaCommand(local)
         exists == IF ollamaCmd = BinPath THEN local.installed ELSE local.systemOllama
     IN  \E started \in (IF exists THEN BOOLEAN ELSE {FALSE}) :
           /\ local' = IF started
                         THEN [local EXCEPT !.cmd = ollamaCmd, !.child = "running",
                                            !.polls = 0, !.slept = 0]
                         ELSE [local EXCEPT !.cmd = ollamaCmd]
           /\ pc' = IF started THEN "poll" ELSE "done"
           /\ err' = IF started THEN err ELSE "failed to start Ollama"
  /\ UNCHANGED <<cfg, response, command, risk, calls, execFlag, stdout, stderr, executed>>
  /\ UNCHANGED <<llmcfg, providerFlag, provider, requests, spinner, selections>>

StartAttempts == 30

\* time.Sleep(500 * time.Millisecond), in milliseconds
ProbeInterval == 500

\* StartServer_Poll without the Kill after the last attempt
StartServer_Poll_NoKill ==
  /\ pc = "poll"
  /\ IF local.polls < StartAttempts
       THEN /\ \E up \in BOOLEAN :
                 /\ pc' = IF up THEN "ensure_model" ELSE "poll"
                 /\ local' = Probed([local EXCEPT !.slept = @ + ProbeInterval,
                                                  !.polls = @ + 1],
                                    OllamaDefaultURL, up)
            /\ err' = err
       ELSE /\ local' = local
            /\ pc' = "done"
            /\ err' = "failed to start Ollama"
  /\ UNCHANGED <<cfg, response, command, risk, calls, execFlag, stdout, stderr, executed>>
  /\ UNCHANGED <<llmcfg, providerFlag, provider, requests, spinner, selections>>

\* StartServer_Poll with the command returned when the attempts are used up
StartServer_Poll_Optimistic ==
  /\ pc = "poll"
  /\ IF local.polls < StartAttempts
       THEN /\ \E up \in BOOLEAN :
                 /\ pc' = IF up THEN "ensure_model" ELSE "poll"
                 /\ local' = Probed([local EXCEPT !.slept = @ + ProbeInterval,
                                                  !.polls = @ + 1],
                                    OllamaDefaultURL, up)
       ELSE /\ local' = local
            /\ pc' = "ensure_model"
  /\ err' = err
  /\ UNCHANGED <<cfg, response, command, risk, calls, execFlag, stdout, stderr, executed>>
  /\ UNCHANGED <<llmcfg, providerFlag, provider, requests, spinner, selections>>

\* StartServer's loop: per step one sleep and one probe, IsOllamaRunning(),
\* of the default address; polls counts the probes made; after the last one
\* cmd.Process.Kill() and the error; Kill on a child that already exited
\* fails and changes nothing
StartServer_Poll ==
  /\ pc = "poll"
  /\ IF local.polls < StartAttempts
       THEN /\ \E up \in BOOLEAN :
                 /\ pc' = IF up THEN "ensure_model" ELSE "poll"
                 /\ local' = Probed([local EXCEPT !.slept = @ + ProbeInterval,
                                                  !.polls = @ + 1],
                                    OllamaDefaultURL, up)
            /\ err' = err
       ELSE /\ local' = [local EXCEPT !.child = IF @ = "running" THEN "killed" ELSE @]
            /\ pc' = "done"
            /\ err' = "failed to start Ollama"
  /\ UNCHANGED <<cfg, response, command, risk, calls, execFlag, stdout, stderr, executed>>
  /\ UNCHANGED <<llmcfg, providerFlag, provider, requests, spinner, selections>>

\* the child ends by itself while StartServer polls
ChildExits ==
  /\ pc = "poll"
  /\ local.child = "running"
  /\ local' = [local EXCEPT !.child = "exited"]
  /\ UNCHANGED <<cfg, response, command, risk, calls, pc, queryVars>>
  /\ UNCHANGED <<llmcfg, providerFlag, provider, requests, spinner, selections>>

\* the machine sizes EnsureModelExists may find, in MiB
SetupRAM == {3 * GiB, 4 * GiB, 16 * GiB}

\* pullModel returns an error only when the request itself fails; a pull the
\* runtime refuses still returns nil
PullOutcomes == {"pulled", "refused", "error"}

\* the machine after pullModel(model)
Pull(m, model, outcome) ==
  [m EXCEPT !.pulls = Append(@, model),
            !.present = IF outcome = "pulled" THEN @ \cup {model} ELSE @]

\* LocalProvider.EnsureModelExists, as Generate calls it
EnsureModelExists ==
  /\ pc = "ensure_model"
  /\ LET known == {n \in DOMAIN availableModels :
                     hasModel(local.present, availableModels[n])}
         entered == [local EXCEPT !.ensured = TRUE, !.requested = provider.model,
                                  !.listed = local.present]
     IN  IF hasModel(local.present, provider.model)
           THEN /\ local' = entered
                /\ pc' = "request"
                /\ UNCHANGED <<provider, llmcfg, err>>
           ELSE IF known # {}
           THEN /\ local' = entered
                /\ provider' = [provider EXCEPT !.model = availableModels[Min(known)]]
                /\ pc' = "request"
                /\ UNCHANGED <<llmcfg, err>>
           ELSE \E ram \in SetupRAM, first \in PullOutcomes, saved \in BOOLEAN :
                  LET selectedModel == selectModelByRAM(ram)
                      afterFirst == Pull(entered, selectedModel, first)
                  IN  /\ llmcfg' = IF saved
                                     THEN [llmcfg EXCEPT !.Local.Model = selectedModel]
                                     ELSE llmcfg
                      /\ IF first # "error"
                           THEN /\ provider' = [provider EXCEPT !.model = selectedModel]
                                /\ local' = afterFirst
                                /\ pc' = "request"
                                /\ err' = err
                           ELSE IF selectedModel # FallbackModel
                           THEN /\ provider' = [provider EXCEPT !.model = FallbackModel]
                                /\ IF hasModel(afterFirst.present, FallbackModel)
                                     THEN /\ local' = afterFirst
                                          /\ pc' = "request"
                                          /\ err' = err
                                     ELSE \E second \in PullOutcomes :
                                            /\ local' = Pull(afterFirst, FallbackModel, second)
                                            /\ pc' = IF second = "error" THEN "done"
                                                     ELSE "request"
                                            /\ err' = IF second = "error" THEN "pull failed"
                                                      ELSE err
                           ELSE /\ provider' = [provider EXCEPT !.model = selectedModel]
                                /\ local' = afterFirst
                                /\ pc' = "done"
                                /\ err' = "pull failed"
  /\ UNCHANGED <<cfg, response, command, risk, calls, execFlag, stdout, stderr, executed>>
  /\ UNCHANGED <<providerFlag, requests, spinner, selections>>

\* LocalProvider.Generate, its request to the chat endpoint
LP_Request ==
  /\ pc = "request"
  /\ requests' = Append(requests, [provider |-> provider.name, model |-> provider.model])
  /\ err' \in {"nil", "ollama error"}
  /\ pc' = "done"
  /\ UNCHANGED <<cfg, response, command, risk, calls, execFlag, stdout, stderr, executed>>
  /\ UNCHANGED <<llmcfg, providerFlag, provider, spinner, local, selections>>

NextProvider ==
  \/ NewProvider
  \/ API_Generate
  \/ LP_Generate
  \/ LP_EnsureRunning
  \/ EnsureInstalled
  \/ StartServer
  \/ StartServer_Poll
  \/ ChildExits
  \/ EnsureModelExists
  \/ LP_Request

SpecProvider == InitProvider /\ [][NextProvider]_vars

\* C14: when StartServer has returned its startup failure, no child it
\* started is running: either none was started or it was killed (or had
\* already ended) before the return.
C14_NoChildAfterFailure ==
  (pc = "done" /\ err = "failed to start Ollama") => local.child # "running"

\* thirty probes failed and the child StartServer started was killed
C14_Witness ==
  /\ pc = "done"
  /\ err = "failed to start Ollama"
  /\ local.polls = StartAttempts
  /\ local.child = "killed"

\* The runtime's start-up under a scheduler that lets StartServer's loop run:
\* the loop is sequential code of the one goroutine that called Generate, its
\* sleep ends after the interval and its probe returns with an answer or an
\* error, so a step of the loop that can be taken is taken.
SpecProviderFair == SpecProvider /\ WF_vars(StartServer_Poll)

C25_OwnEndpointReachable ==
  (provider.name = "local" /\ (pc \in {"ensure_model", "request"} \/ requests # <<>>))
    => provider.baseURL \in local.answered

\* C16: no generation request carries an empty model identifier, whatever
\* the provider kind and the configuration.
C16_ModelNeverEmpty ==
  \A i \in DOMAIN requests : requests[i].model # <<>>

\* C15: the model is resolved in order: the requested model if the runtime
\* lists it (or a tag variant of it), with no download and no change; else
\* the first recommended model it lists, with no download; else a download,
\* of the requested model, and of the minimal model only after that failed.
C15_ResolutionOrder ==
  local.ensured =>
    LET known == {n \in DOMAIN availableModels :
                    hasModel(local.listed, availableModels[n])}
    IN  IF hasModel(local.listed, local.requested)
          THEN local.pulls = <<>> /\ provider.model = local.requested
          ELSE IF known # {}
          THEN /\ local.pulls = <<>>
               /\ provider.model = availableModels[Min(known)]
          ELSE /\ local.pulls # <<>>
               /\ local.pulls[1] = local.requested
               /\ Len(local.pulls) > 1 => local.pulls[2] = FallbackModel

\* C26: when EnsureModelExists has returned without error, the model the
\* chat request will name is in the runtime's inventory.
C26_ModelPresentAfterEnsure ==
  (pc = "request" /\ local.ensured) => hasModel(local.present, provider.model)

\* C20: EnsureInstalled downloads only when there is neither a managed
\* binary nor a system-wide install: with a managed binary it changes nothing
\* but the managed mark, with only a system install it adopts it and
\* downloads nothing; and StartServer's command is the managed binary's path
\* when that binary exists and the system command otherwise.
C20_DownloadOnlyWhenAbsent ==
  /\ [][pc = "ensure_installed" =>
          /\ local.installed => local' = [local EXCEPT !.isInternal = TRUE]
          /\ (~local.installed /\ local.systemOllama) =>
               local' = [local EXCEPT !.isInternal = FALSE]
          /\ local'.downloads > local.downloads =>
               ~local.installed /\ ~local.systemOllama]_vars
  /\ [](local.cmd # "" =>
          local.cmd = IF local.installed THEN BinPath ELSE "ollama")

\* with no managed binary and a system-wide install, the server was started
\* with the system command and nothing was downloaded
C20_Witness ==
  /\ pc = "poll"
  /\ ~local.installed
  /\ local.systemOllama
  /\ ~local.isInternal
  /\ local.downloads = 0
  /\ local.cmd = "ollama"
  /\ local.child = "running"

-----------------------------------------------------------------------------
(* cleanResponse on its own: the model's output is up to MaxCleanLines      *)
(* lines, each a command, a comment, explanatory text, a label, a fence or  *)
(* the empty line.                                                          *)

MaxCleanLines == 3

CleanLines ==
  { <<"l", "s", " ", "-", "l", "a">>,
    <<" ", "l", "s">>,
    <<>>,
    <<"#", " ", "l", "i", "s", "t">>,
    <<"/", "/", " ", "l", "i", "s", "t">>,
    <<"N", "o", "t", "e", ":", " ", "a", "l", "l">>,
    <<"T", "h", "i", "s", " ", "l", "i", "s", "t", "s">>,
    <<"T", "h", "e", " ", "f", "i", "l", "e", "s">>,
    <<"'", "j", "q", "'", " ", "i", "s", " ", "n", "o", "t", " ", "i", "n", "s", "t",
      "a", "l", "l", "e", "d">>,
    <<"C", "o", "m", "m", "a", "n", "d", ":", " ", "l", "s">>,
    <<"$", " ", "#", " ", "l", "s">>,
    Fence,
    Fence \o <<"s", "h">> }

Contents == {JoinLines(ls) : ls \in UNION {[1..n -> CleanLines] : n \in 1..MaxCleanLines}}

InitClean ==
  /\ cfg = DefaultSafety
  /\ response \in Contents
  /\ command = <<>>
  /\ risk = Safe
  /\ calls = <<>>
  /\ pc = "content"
  /\ execFlag = FALSE
  /\ QueryIdle
  /\ BackendIdle

\* return cleanResponse(result.Message.Content), nil
Clean ==
  /\ pc = "content"
  /\ command' = cleanResponse(response)
  /\ pc' = "cleaned"
  /\ UNCHANGED <<cfg, response, risk, calls, queryVars>>
  /\ UNCHANGED backendVars

NextClean == Clean

SpecClean == InitClean /\ [][NextClean]_vars

\* a line the spec calls commentary by its start
StartsAsCommentary(line) ==
  \/ HasPrefix(line, <<"#">>)
  \/ HasPrefix(line, <<"/", "/">>)
  \/ HasPrefix(line, <<"N", "o", "t", "e", ":">>)
  \/ HasPrefix(line, <<"T", "h", "i", "s", " ">>)
  \/ HasPrefix(line, <<"T", "h", "e", " ">>)

\* C30: the result of cleanResponse is never a line that starts with #, //,
\* "Note:", "This " or "The ", and never holds a line break.
C30_NeverCommentary ==
  pc = "cleaned" =>
    /\ ~StartsAsCommentary(command)
    /\ \A i \in DOMAIN command : command[i] # "\n"

-----------------------------------------------------------------------------
(* One Spinner and the goroutines that call Start and Stop on it, each up   *)
(* to MaxSpinnerCalls times, in any order and interleaved at the            *)
(* statements where the code holds no lock.                                 *)

Callers == {1, 2}

MaxSpinnerCalls == 2

InitSpinner ==
  /\ cfg = DefaultSafety
  /\ response = <<>>
  /\ command = <<>>
  /\ risk = Safe
  /\ calls = <<>>
  /\ execFlag = FALSE
  /\ QueryIdle
  /\ llmcfg = DefaultConfig
  /\ providerFlag = ""
  /\ provider = NoProvider
  /\ requests = <<>>
  /\ local = LocalIdle
  /\ selections = <<>>
  /\ spinner \in {[SpinnerIdle EXCEPT !.terminal = t] : t \in BOOLEAN}
  /\ pc = [t \in Callers |-> [at |-> "idle", n |-> 0]]

\* the caller's call returned
Returned(t) == [pc EXCEPT ![t] = [at |-> "idle", n |-> @.n + 1]]

\* Start up to s.mu.Unlock(): without a terminal the message is printed; an
\* active spinner is left alone; else active is set under the lock
Spinner_Start(t) ==
  /\ spinner.panic = ""
  /\ pc[t].at = "idle"
  /\ pc[t].n < MaxSpinnerCalls
  /\ IF ~spinner.terminal
       THEN /\ stdout' = Append(stdout, [kind |-> "progress", text |-> Thinking])
            /\ spinner' = spinner
            /\ pc' = Returned(t)
       ELSE IF spinner.active
       THEN /\ UNCHANGED <<stdout, spinner>>
            /\ pc' = Returned(t)
       ELSE /\ stdout' = stdout
            /\ spinner' = [spinner EXCEPT !.active = TRUE]
            /\ pc' = [pc EXCEPT ![t].at = "go"]
  /\ UNCHANGED <<cfg, response, command, risk, calls, execFlag, stderr, executed, err>>
  /\ UNCHANGED <<llmcfg, providerFlag, provider, requests, local, selections>>

\* Start: go func() { ... }()
Spinner_Go(t) ==
  /\ spinner.panic = ""
  /\ pc[t].at = "go"
  /\ spinner' = IF spinner.task = "none" THEN [spinner EXCEPT !.task = "select"]
                ELSE [spinner EXCEPT !.later = Append(@, "select")]
  /\ pc' = Returned(t)
  /\ UNCHANGED <<cfg, response, command, risk, calls, queryVars>>
  /\ UNCHANGED <<llmcfg, providerFlag, provider, requests, local, selections>>

\* a step of the goroutine of a later Start: the select, a frame, or the
\* clearing of the line and the deferred close(s.done)
Spin_Later(i) ==
  /\ spinner.panic = ""
  /\ i \in DOMAIN spinner.later
  /\ \/ /\ spinner.later[i] = "select"
        /\ spinner.stop = "closed" \/ spinner.frames < MaxFrames
        /\ spinner' = [spinner EXCEPT !.later[i] = IF spinner.stop = "closed" THEN "clear"
                                                    ELSE "draw"]
     \/ /\ spinner.later[i] = "draw"
        /\ spinner' = [spinner EXCEPT !.frames = @ + 1, !.later[i] = "select"]
     \/ /\ spinner.later[i] = "clear"
        /\ spinner' = [spinner EXCEPT !.cleared = TRUE, !.later[i] = "exited",
                                      !.done = "closed",
                                      !.panic = ClosePanic(spinner.done)]
  /\ UNCHANGED <<cfg, response, command, risk, calls, pc, queryVars>>
  /\ UNCHANGED <<llmcfg, providerFlag, provider, requests, local, selections>>

\* Stop up to s.mu.Unlock(): a spinner that is not active is left alone
Spinner_Stop(t) ==
  /\ spinner.panic = ""
  /\ pc[t].at = "idle"
  /\ pc[t].n < MaxSpinnerCalls
  /\ IF ~spinner.active
       THEN spinner' = spinner /\ pc' = Returned(t)
       ELSE /\ spinner' = [spinner EXCEPT !.active = FALSE]
            /\ pc' = [pc EXCEPT ![t].at = "close"]
  /\ UNCHANGED <<cfg, response, command, risk, calls, queryVars>>
  /\ UNCHANGED <<llmcfg, providerFlag, provider, requests, local, selections>>

\* Stop: close(s.stop)
Spinner_Close(t) ==
  /\ spinner.panic = ""
  /\ pc[t].at = "close"
  /\ spinner' = [spinner EXCEPT !.stop = "closed", !.panic = ClosePanic(spinner.stop)]
  /\ pc' = [pc EXCEPT ![t].at = "wait"]
  /\ UNCHANGED <<cfg, response, command, risk, calls, queryVars>>
  /\ UNCHANGED <<llmcfg, providerFlag, provider, requests, local, selections>>

\* Stop: <-s.done
Spinner_Wait(t) ==
  /\ spinner.panic = ""
  /\ pc[t].at = "wait"
  /\ spinner.done = "closed"
  /\ pc' = Returned(t)
  /\ UNCHANGED <<cfg, response, command, risk, calls, queryVars, backendVars>>

\* a panic ends the process: no step is enabled after it
NextSpinner ==
  \/ \E t \in Callers : Spinner_Start(t)
  \/ \E t \in Callers : Spinner_Go(t)
  \/ \E t \in Callers : Spinner_Stop(t)
  \/ \E t \in Callers : Spinner_Close(t)
  \/ \E t \in Callers : Spinner_Wait(t)
  \/ Spin_Select
  \/ Spin_Draw
  \/ Spin_Clear
  \/ \E i \in 1..(MaxSpinnerCalls * Cardinality(Callers)) : Spin_Later(i)

SpecSpinner == InitSpinner /\ [][NextSpinner]_vars

\* the goroutines that are drawing a frame
Drawing ==
  (IF spinner.task = "draw" THEN {0} ELSE {})
    \cup {i \in DOMAIN spinner.later : spinner.later[i] = "draw"}

\* C28: whatever the order and the interleaving of the Start and Stop calls,
\* at most one goroutine draws at a time and no channel is closed twice.
C28_SpinnerReusable ==
  /\ Cardinality(Drawing) <= 1
  /\ spinner.panic = ""

=============================================================================
